---- MODULE Spec2Model ----
(***************************************************************************)
(* A model of the digpig-pi scripts: the best-fit font search of           *)
(* display.py (and lcd-test.py), the debounce loops of button_util.py and  *)
(* hello-on-center.py, and the request handlers and button thread of       *)
(* flask_server.py.  Each script is an independent program; a              *)
(* specification below runs one of them and leaves the others' variables   *)
(* at their initial values.                                                *)
(***************************************************************************)
EXTENDS Integers, Sequences, FiniteSets, TLC

VARIABLES
  \* ---- display.py: choose_font(message, size) ----
  width,        \* size[0]
  height,       \* size[1]
  font_path,    \* TRUE when one of the DejaVu files exists, FALSE for None
  tw,           \* measured text width by point size  (bbox[2] - bbox[0])
  th,           \* measured text height by point size (bbox[3] - bbox[1])
  lo, hi,       \* the search interval
  best,         \* the font kept so far
  cf_pc,        \* "call" | "search" | "returned"
  cf_result,    \* the returned font
  probed,       \* history: the sizes measured so far, in order
  \* ---- the clock both debounce loops read: time.time() * 1000 ----
  script,       \* which debounce script runs: "none" | "button_util" | "hello"
  clock,
  \* ---- button_util.py: ButtonConfig and ButtonWatcher ----
  GPIO,         \* TRUE when RPi.GPIO was imported, FALSE for None
  via,          \* the caller: "watch_button" or "direct" use of the class
  pull_up,      \* ButtonConfig.pull_up
  debounce_ms,  \* ButtonConfig.debounce_ms
  on_press,     \* TRUE when a press callback is given
  on_release,   \* TRUE when a release callback is given
  _running,
  _last_val,
  _last_change_ms,
  bw_pc,        \* position of the watcher's caller
  val, now,     \* the locals of the current loop iteration
  cb,           \* the callback being run: "none" | "press" | "release"
  \* ---- hello-on-center.py ----
  last,         \* the last accepted level
  last_change,  \* the time of the last accepted transition
  h_pc,         \* position of the script
  screen,       \* what the panel shows: "unknown" | "black" | "hello"
  backlight,    \* "unknown" | "on" | "off"
  bl_failed,    \* history: TRUE once bl() has swallowed an error
  \* ---- flask_server.py ----
  srv,              \* "unborn" | "running"
  BTN_RESTORE_PREV, \* the configuration read from the environment
  BTN_MIN,
  BTN_MAX,
  current_text,     \* the global shared by the handlers
  state_lock,       \* the thread holding state_lock, or Free
  display,          \* what the panel shows
  srv_backlight,    \* what _bl and set_backlight last asked for: "on" | "off"
  drawing,          \* the threads inside a draw call
  req,              \* the request-handler threads
  btn,              \* the button thread
  \* history of the server
  last_rendered,    \* the message of the last draw of a text that succeeded
  last_assigned,    \* the message of the POST that took the lock last
  presses,          \* button presses handled so far
  draw_failed,      \* TRUE once a draw has raised
  \* history of the debounce loops
  press_run,    \* press events fired since the last accepted release
  accepted,     \* the last accepted transition
  swallowed,    \* callbacks whose Exception was swallowed
  invoked,      \* callbacks invoked
  cleanups,     \* calls of cleanup() made by loop()
  pending,      \* "seen": the last sample differed and was rejected inside the
                \* debounce window; "accepted": such a change was accepted
  \* ---- the LCD_* settings of lcd-test.py, flask_server.py, lcd-ping.py, lcd-off.py ----
  e_pc,         \* position of the script in its configuration code
  e_script,     \* the script that runs
  environ,      \* os.environ
  lcd_env,      \* the file lcd.env beside the script
  e_lines,      \* the lines of lcd.env still to be loaded
  config,       \* PORT, CS, DC, ... by the name of their setting
  environ0,     \* history: os.environ as the script found it
  \* ---- config-lcd.py ----
  c_pc,         \* position of the script
  c_values,     \* the dict given to write_env_file
  c_lines,      \* the lines load_existing_env_file still has to read
  c_loaded,     \* the dict load_existing_env_file builds and returns
  \* ---- lcd-input.py ----
  i_pc,         \* position of the script
  i_environ,    \* os.environ after _load_env_file
  PINS,         \* the enabled buttons: (name, pin) in the order of DEFAULT_PINS
  ACTIVE_LOW,
  last_state,   \* the pressed state last seen, by name
  EVENT_PINS,   \* the buttons with edge detection: a list of (name, pin)
  POLLED,       \* the buttons polled by the main loop: name -> pin
  i_next,       \* the turn of the registration loop
  reported,     \* history: the buttons an event line has been printed for
  events,       \* history: the event lines printed, by button, oldest first
  \* ---- lcd-ping.py ----
  p_pc,             \* position of the script, or its exit status
  p_environ,        \* os.environ after _load_env_file
  CYCLES,
  p_n,              \* n of the loop over range(CYCLES)
  p_idx,            \* idx of the loop over the frames
  p_shown,          \* the frames the display has shown, oldest first
  p_backlight,      \* "unknown" | "on"
  p_border_failed,  \* history: the draw of the border frame raised
  p_cycle_failed,   \* history: a draw of the colour cycle raised
  \* ---- config-lcd.py --install-global ----
  g_pc,         \* position of install_global_exports
  g_values,     \* the values installed
  profile,      \* the file ~/.profile
  g_block,      \* block
  g_txt,        \* txt
  g_runs,       \* history: the runs finished
  g_first,      \* history: the profile as the first run wrote it
  g_profile,    \* history: the profile as the first run found it
  \* ---- lcd_util.py VendorLCD ----
  v_pc,         \* "unborn", "made" or "failed"
  lcd,          \* the object: _inited, and the log of its vendor calls
  v_raised,     \* the last method raised
  v_n           \* history: the method calls made

fontVars == <<width, height, font_path, tw, th, lo, hi, best, cf_pc, cf_result, probed>>

clockVars == <<script, clock>>

sampleVars == <<val, now>>

watcherVars == <<GPIO, via, pull_up, debounce_ms, on_press, on_release, _running,
                 _last_val, _last_change_ms, bw_pc, cb>>

helloVars == <<last, last_change, h_pc, screen, backlight, bl_failed>>

historyVars == <<press_run, accepted, swallowed, invoked, cleanups, pending>>

serverVars == <<srv, BTN_RESTORE_PREV, BTN_MIN, BTN_MAX, current_text, state_lock,
                display, srv_backlight, drawing, req, btn>>

serverHistory == <<last_rendered, last_assigned, presses, draw_failed>>

envVars == <<e_pc, e_script, environ, lcd_env, e_lines, config, environ0>>

\* The variables of the scripts added to the model later.
configVars == <<c_pc, c_values, c_lines, c_loaded>>

inputVars == <<i_pc, i_environ, PINS, ACTIVE_LOW, last_state, EVENT_PINS, POLLED, i_next,
               reported, events>>

pingVars == <<p_pc, p_environ, CYCLES, p_n, p_idx, p_shown, p_backlight, p_border_failed,
              p_cycle_failed>>

installVars == <<g_pc, g_values, profile, g_block, g_txt, g_runs, g_first, g_profile>>

vendorVars == <<v_pc, lcd, v_raised, v_n>>

otherVars == <<envVars, configVars, inputVars, pingVars, installVars, vendorVars>>

vars == <<fontVars, clockVars, sampleVars, watcherVars, helloVars, historyVars,
          serverVars, serverHistory, otherVars>>

\* What the steps of one script leave alone: the variables of the others.
besidesFont == <<clockVars, sampleVars, watcherVars, helloVars, historyVars,
                 serverVars, serverHistory, otherVars>>

besidesWatcher == <<fontVars, helloVars, serverVars, serverHistory, otherVars>>

besidesHello == <<fontVars, watcherVars, serverVars, serverHistory, otherVars>>

besidesServer == <<fontVars, clockVars, sampleVars, watcherVars, helloVars, historyVars,
                   otherVars>>

\* The variables of the debounce loops, the font search and the server.
firstVars == <<fontVars, clockVars, sampleVars, watcherVars, helloVars, historyVars,
               serverVars, serverHistory>>

besidesEnv == <<firstVars, configVars, inputVars, pingVars, installVars, vendorVars>>

\* config-lcd.py writes lcd.env and touches nothing else of the scripts.
besidesConfig == <<firstVars, e_pc, e_script, environ, e_lines, config, environ0, inputVars,
                   pingVars, installVars, vendorVars>>

besidesInput == <<firstVars, envVars, configVars, pingVars, installVars, vendorVars>>

besidesPing == <<firstVars, envVars, configVars, inputVars, installVars, vendorVars>>

besidesInstall == <<firstVars, envVars, configVars, inputVars, pingVars, vendorVars>>

besidesVendor == <<firstVars, envVars, configVars, inputVars, pingVars, installVars>>

-----------------------------------------------------------------------------
(* Fonts.  ImageFont.truetype(font_path, n) is the font of point size n;   *)
(* ImageFont.load_default() is the built-in bitmap font.                   *)

NoFont == [kind |-> "none", size |-> 0]

truetype(n) == [kind |-> "truetype", size |-> n]

load_default == [kind |-> "default", size |-> 0]

\* Bounds of the font search model.
MaxHeight == 12
MaxTw == 1
MaxTh == 1

MIN_SIZE == 6
START_SIZE == 12
MARGIN == 8

MinHeight == MIN_SIZE - 1

Larger(a, b) == IF a >= b THEN a ELSE b

\* Sizes at which a measurement is defined in the model: every candidate of
\* every height, and the start size.
Sizes == MIN_SIZE..Larger(MaxHeight, START_SIZE)

Monotonic(f) == \A a, b \in DOMAIN f : a <= b => f[a] <= f[b]

Measurements(maxv) == {f \in [Sizes -> 0..maxv] : Monotonic(f)}

WidthMeasurements == Measurements(MaxTw)

HeightMeasurements == Measurements(MaxTh)

\* A fit test without the margin: what C2 must tell apart from Fits.
FitsNoMargin(s) == tw[s] <= width /\ th[s] <= height

\* A fit test that looks at the width alone: what C23 must tell apart from
\* Fits.
FitsWidthOnly(s) == tw[s] <= width - MARGIN

\* display.py line 36: the fit constraint on a measured box.
Fits(s) == tw[s] <= width - MARGIN /\ th[s] <= height - MARGIN

\* A midpoint that never moves: the lowest candidate, whatever the interval.
MidStuck(l, h) == MIN_SIZE

\* display.py line 32
Mid(l, h) == (l + h) \div 2

\* Before choose_font is called: nothing chosen, nothing measured.
InitFont ==
  /\ width = MARGIN
  /\ height = MinHeight
  /\ font_path = FALSE
  /\ tw = [s \in Sizes |-> 0]
  /\ th = [s \in Sizes |-> 0]
  /\ lo = 0
  /\ hi = 0
  /\ best = NoFont
  /\ cf_pc = "idle"
  /\ cf_result = NoFont
  /\ probed = <<>>

\* display.py lines 14-18: a call of choose_font(message, size).  The message
\* and the installed font decide the measurement (tw, th); a size is any
\* (width, height) of the bounded ranges.
Call ==
  /\ cf_pc = "idle"
  /\ tw' \in WidthMeasurements
  /\ th' \in HeightMeasurements
  /\ width' \in (MARGIN - 1)..(MARGIN + MaxTw)
  /\ height' \in MinHeight..MaxHeight
  /\ font_path' \in BOOLEAN
  \* without a font file nothing is measured: one measurement stands for all
  /\ font_path' \/ (tw' = tw /\ th' = th)
  /\ cf_pc' = "call"
  /\ UNCHANGED <<lo, hi, best, cf_result, probed>>
  /\ UNCHANGED besidesFont

\* display.py lines 14-18: a call of choose_font with a font whose measured
\* width is any function of the size, monotonic or not.  With the widths
\* free, every set of sizes occurs as the set of sizes that fit.
CallAny ==
  /\ cf_pc = "idle"
  /\ tw' \in [Sizes -> 0..MaxTw]
  /\ th' \in HeightMeasurements
  /\ width' \in (MARGIN - 1)..(MARGIN + MaxTw)
  /\ height' \in MinHeight..MaxHeight
  /\ font_path' \in BOOLEAN
  /\ font_path' \/ (tw' = tw /\ th' = th)
  /\ cf_pc' = "call"
  /\ UNCHANGED <<lo, hi, best, cf_result, probed>>
  /\ UNCHANGED besidesFont

\* display.py lines 20-27: no font file found, the default font is returned.
FontMissing ==
  /\ cf_pc = "call"
  /\ ~font_path
  /\ cf_pc' = "returned"
  /\ cf_result' = load_default
  /\ UNCHANGED <<width, height, font_path, tw, th, lo, hi, best, probed>>
  /\ UNCHANGED besidesFont

\* display.py lines 28-30: the search starts on 6..height with the size-12 font.
SearchStart ==
  /\ cf_pc = "call"
  /\ font_path
  /\ lo' = MIN_SIZE
  /\ hi' = height
  /\ best' = truetype(START_SIZE)
  /\ cf_pc' = "search"
  /\ UNCHANGED <<width, height, font_path, tw, th, cf_result, probed>>
  /\ UNCHANGED besidesFont

\* display.py lines 31-40: one iteration of the while loop.
Probe ==
  /\ cf_pc = "search"
  /\ lo <= hi
  /\ LET mid == Mid(lo, hi)
     IN /\ probed' = Append(probed, mid)
        /\ IF Fits(mid)
             THEN best' = truetype(mid) /\ lo' = mid + 1 /\ hi' = hi
             ELSE hi' = mid - 1 /\ best' = best /\ lo' = lo
  /\ UNCHANGED <<width, height, font_path, tw, th, cf_pc, cf_result>>
  /\ UNCHANGED besidesFont

\* display.py line 41: the loop condition fails, best is returned.
SearchReturn ==
  /\ cf_pc = "search"
  /\ lo > hi
  /\ cf_pc' = "returned"
  /\ cf_result' = best
  /\ UNCHANGED <<width, height, font_path, tw, th, lo, hi, best, probed>>
  /\ UNCHANGED besidesFont

NextFont == Call \/ FontMissing \/ SearchStart \/ Probe \/ SearchReturn

NextFontAny == CallAny \/ FontMissing \/ SearchStart \/ Probe \/ SearchReturn

-----------------------------------------------------------------------------
(* button_util.py: ButtonWatcher.                                          *)

\* Bounds of the debounce models.
MaxTime == 5
MaxDebounce == 2
MaxCount == 2

None == -1
LOW == 0
HIGH == 1

Levels == {LOW, HIGH}

\* The longest time one step of the model takes: enough to leave any
\* debounce window at once.
MaxDelta == MaxDebounce + 1

\* The record of an accepted transition: its kind, the level sampled, the
\* times of the sample and of the transition before it, its number, and
\* what became of its callback ("none" | "called" | "returned" | "raised").
NoTransition ==
  [kind |-> "none", level |-> LOW, at |-> 0, since |-> 0, nth |-> 0, outcome |-> "none"]

Capped(n) == IF n < MaxCount THEN n + 1 ELSE MaxCount

\* An active level of the opposite polarity: what C11 must tell apart from
\* active_level.
active_level_inverted(pu) == IF pu THEN HIGH ELSE LOW

\* button_util.py lines 33-35 and 81: the level that means "pressed".
active_level(pu) == IF pu THEN LOW ELSE HIGH

\* An accept test without the level comparison: what C1 must tell apart
\* from Accepts.
AcceptsAnyLevel(v, prev, t, since, debounce) ==
  (t - since) > debounce

\* An accept test that lets a sample through at the threshold itself: what
\* C12 must tell apart from Accepts.
AcceptsAtThreshold(v, prev, t, since, debounce) ==
  v # prev /\ (t - since) >= debounce

\* A test that drops a change first seen inside the debounce window: what
\* C22 must tell apart from Accepts.
AcceptsFreshOnly(v, prev, t, since, debounce) ==
  v # prev /\ (t - since) > debounce /\ pending # "seen"

\* button_util.py line 76: the test that accepts a sample as a transition.
Accepts(v, prev, t, since, debounce) ==
  v # prev /\ (t - since) > debounce

InitClock ==
  /\ script = "none"
  /\ clock = 0
  /\ val = LOW
  /\ now = 0

InitHistory ==
  /\ press_run = 0
  /\ accepted = NoTransition
  /\ swallowed = 0
  /\ invoked = 0
  /\ cleanups = 0
  /\ pending = "none"

\* button_util.py lines 39-47: a watcher as __init__ leaves it (before it is
\* configured the configuration holds the ButtonConfig defaults).
InitWatcher ==
  /\ GPIO = TRUE
  /\ via = "direct"
  /\ pull_up = TRUE
  /\ debounce_ms = 0
  /\ on_press = FALSE
  /\ on_release = FALSE
  /\ _running = FALSE
  /\ _last_val = None
  /\ _last_change_ms = 0
  /\ bw_pc = "unborn"
  /\ cb = "none"

\* button_util.py lines 39-47 and 126-127: a ButtonWatcher is constructed,
\* by watch_button or directly, at some time of the clock.
Construct ==
  /\ script = "none"
  /\ script' = "button_util"
  /\ clock' \in 0..MaxDelta
  /\ GPIO' \in BOOLEAN
  /\ via' \in {"watch_button", "direct"}
  /\ pull_up' \in BOOLEAN
  /\ debounce_ms' \in 0..MaxDebounce
  /\ on_press' \in BOOLEAN
  /\ on_release' \in BOOLEAN
  \* watch_button requires on_press
  /\ (via' = "watch_button") => on_press'
  /\ bw_pc' = "constructed"
  /\ UNCHANGED <<_running, _last_val, _last_change_ms, val, now, cb>>
  /\ UNCHANGED historyVars
  /\ UNCHANGED besidesWatcher

\* button_util.py lines 49-61: setup().  Without GPIO, or when a GPIO call
\* raises, it returns False and leaves the watcher as it was.
SetupFails ==
  /\ script = "button_util"
  /\ bw_pc = "constructed"
  /\ bw_pc' = "setup_false"
  /\ UNCHANGED <<script, clock, GPIO, via, pull_up, debounce_ms, on_press, on_release,
                 _running, _last_val, _last_change_ms, val, now, cb>>
  /\ UNCHANGED historyVars
  /\ UNCHANGED besidesWatcher

\* button_util.py lines 53-59: setup() reads the pin and the clock.
SetupOk ==
  /\ script = "button_util"
  /\ bw_pc = "constructed"
  /\ GPIO
  /\ _last_val' \in Levels
  /\ _last_change_ms' = clock
  /\ bw_pc' = "setup_true"
  /\ UNCHANGED <<script, clock, GPIO, via, pull_up, debounce_ms, on_press, on_release,
                 _running, val, now, cb>>
  /\ UNCHANGED historyVars
  /\ UNCHANGED besidesWatcher

\* button_util.py lines 128-130: watch_button returns when setup() failed.
WatchButtonReturns ==
  /\ script = "button_util"
  /\ bw_pc = "setup_false"
  /\ via = "watch_button"
  /\ bw_pc' = "returned"
  /\ UNCHANGED <<script, clock, GPIO, via, pull_up, debounce_ms, on_press, on_release,
                 _running, _last_val, _last_change_ms, val, now, cb>>
  /\ UNCHANGED historyVars
  /\ UNCHANGED besidesWatcher

\* A watch_button that calls loop() whatever setup() returned: what C17 must
\* tell apart from MayEnterLoop.
MayEnterLoopUnchecked ==
  \/ bw_pc \in {"setup_true", "setup_false"}
  \/ via = "direct" /\ bw_pc = "constructed"

\* Who may call loop(): watch_button only after a successful setup(); a direct
\* user of the class at any time before the loop ran.
MayEnterLoop ==
  \/ bw_pc = "setup_true"
  \/ via = "direct" /\ bw_pc \in {"constructed", "setup_false"}

\* button_util.py lines 67-68: loop() without GPIO returns at once.
LoopNoGPIO ==
  /\ script = "button_util"
  /\ MayEnterLoop
  /\ ~GPIO
  /\ bw_pc' = "returned"
  /\ UNCHANGED <<script, clock, GPIO, via, pull_up, debounce_ms, on_press, on_release,
                 _running, _last_val, _last_change_ms, val, now, cb>>
  /\ UNCHANGED historyVars
  /\ UNCHANGED besidesWatcher

\* button_util.py line 69: loop() starts running.
LoopEnter ==
  /\ script = "button_util"
  /\ MayEnterLoop
  /\ GPIO
  /\ _running' = TRUE
  /\ bw_pc' = "while"
  /\ UNCHANGED <<script, clock, GPIO, via, pull_up, debounce_ms, on_press, on_release,
                 _last_val, _last_change_ms, val, now, cb>>
  /\ UNCHANGED historyVars
  /\ UNCHANGED besidesWatcher

\* The transition an accepted sample makes, as the history records it.
Transition(v, t, pu, since, called) ==
  [kind |-> IF v = active_level(pu) THEN "press" ELSE "release",
   level |-> v, at |-> t, since |-> since, nth |-> accepted.nth + 1,
   outcome |-> IF called THEN "called" ELSE "none"]

\* button_util.py lines 82-93: which callback an accepted sample invokes.
CallbackFor(v, pu, hasPress, hasRelease) ==
  IF v = active_level(pu)
    THEN (IF hasPress THEN "press" ELSE "none")
    ELSE (IF hasRelease THEN "release" ELSE "none")

\* button_util.py lines 71-93: one iteration up to the callback: the pin and
\* the clock are read, a first sample initialises _last_val, and a sample
\* that differs after the debounce time is accepted.
Sample ==
  /\ script = "button_util"
  /\ bw_pc = "while"
  /\ _running
  /\ \E v \in Levels :
       LET seen == IF _last_val = None THEN v ELSE _last_val
       IN /\ val' = v
          /\ now' = clock
          /\ pending' = IF Accepts(v, seen, clock, _last_change_ms, debounce_ms)
                           THEN (IF pending = "seen" THEN "accepted" ELSE "none")
                           ELSE (IF v # seen THEN "seen" ELSE "none")
          /\ IF Accepts(v, seen, clock, _last_change_ms, debounce_ms)
               THEN /\ _last_change_ms' = clock
                    /\ _last_val' = v
                    /\ cb' = CallbackFor(v, pull_up, on_press, on_release)
                    /\ accepted' = Transition(v, clock, pull_up, _last_change_ms,
                                              cb' # "none")
                    /\ press_run' = IF v = active_level(pull_up)
                                      THEN Capped(press_run) ELSE 0
                    /\ invoked' = IF cb' # "none" THEN Capped(invoked) ELSE invoked
                    /\ bw_pc' = IF cb' # "none" THEN "callback" ELSE "sleep"
               ELSE /\ _last_val' = seen
                    /\ bw_pc' = "sleep"
                    /\ UNCHANGED <<_last_change_ms, accepted, press_run, cb, invoked>>
  /\ UNCHANGED <<script, clock, GPIO, via, pull_up, debounce_ms, on_press, on_release,
                 _running, swallowed, cleanups>>
  /\ UNCHANGED besidesWatcher

\* A loop that a callback's Exception would leave through its finally
\* clause: what C10 must tell apart from AfterCallbackException.
AfterCallbackExceptionEscapes == "cleanup"

\* button_util.py lines 86-87 and 92-93: except Exception: pass, so that
\* the loop goes on to its sleep at line 94.
AfterCallbackException == "sleep"

\* button_util.py lines 85 and 91: the callback returns, after some time.
CallbackReturns ==
  /\ script = "button_util"
  /\ bw_pc = "callback"
  /\ \E d \in 0..MaxDelta : clock + d <= MaxTime /\ clock' = clock + d
  /\ cb' = "none"
  /\ accepted' = [accepted EXCEPT !.outcome = "returned"]
  /\ bw_pc' = "sleep"
  /\ UNCHANGED <<script, GPIO, via, pull_up, debounce_ms, on_press, on_release,
                 _running, _last_val, _last_change_ms, val, now>>
  /\ UNCHANGED <<press_run, swallowed, invoked, cleanups, pending>>
  /\ UNCHANGED besidesWatcher

\* button_util.py lines 84-87 and 90-93: the callback raises an Exception,
\* which is swallowed.
CallbackRaises ==
  /\ script = "button_util"
  /\ bw_pc = "callback"
  /\ \E d \in 0..MaxDelta : clock + d <= MaxTime /\ clock' = clock + d
  /\ cb' = "none"
  /\ swallowed' = Capped(swallowed)
  /\ accepted' = [accepted EXCEPT !.outcome = "raised"]
  /\ bw_pc' = AfterCallbackException
  /\ UNCHANGED <<script, GPIO, via, pull_up, debounce_ms, on_press, on_release,
                 _running, _last_val, _last_change_ms, val, now>>
  /\ UNCHANGED <<press_run, invoked, cleanups, pending>>
  /\ UNCHANGED besidesWatcher

\* button_util.py line 94: time.sleep(poll_interval_s), then the while test.
Sleep ==
  /\ script = "button_util"
  /\ bw_pc = "sleep"
  /\ \E d \in 0..MaxDelta : clock + d <= MaxTime /\ clock' = clock + d
  /\ bw_pc' = "while"
  /\ UNCHANGED <<script, GPIO, via, pull_up, debounce_ms, on_press, on_release,
                 _running, _last_val, _last_change_ms, val, now, cb>>
  /\ UNCHANGED historyVars
  /\ UNCHANGED besidesWatcher

\* button_util.py lines 103-104: stop(), from a callback or another thread.
Stop ==
  /\ script = "button_util"
  /\ bw_pc \in {"while", "callback", "sleep"}
  /\ _running
  /\ _running' = FALSE
  /\ UNCHANGED <<script, clock, GPIO, via, pull_up, debounce_ms, on_press, on_release,
                 _last_val, _last_change_ms, bw_pc, val, now, cb>>
  /\ UNCHANGED historyVars
  /\ UNCHANGED besidesWatcher

\* button_util.py line 71: the while test fails after stop().
LoopExit ==
  /\ script = "button_util"
  /\ bw_pc = "while"
  /\ ~_running
  /\ bw_pc' = "cleanup"
  /\ UNCHANGED <<script, clock, GPIO, via, pull_up, debounce_ms, on_press, on_release,
                 _running, _last_val, _last_change_ms, val, now, cb>>
  /\ UNCHANGED historyVars
  /\ UNCHANGED besidesWatcher

\* A loop without its finally clause, which an interrupt or an error leaves
\* at once: what C21 must tell apart from LoopAborts.
LoopAbortsEscapes ==
  /\ script = "button_util"
  /\ bw_pc \in {"while", "callback", "sleep"}
  /\ cb' = "none"
  /\ bw_pc' = "returned"
  /\ UNCHANGED <<script, clock, GPIO, via, pull_up, debounce_ms, on_press, on_release,
                 _running, _last_val, _last_change_ms, val, now>>
  /\ UNCHANGED historyVars
  /\ UNCHANGED besidesWatcher

\* button_util.py lines 95-99: KeyboardInterrupt anywhere in the loop, or an
\* error raised by GPIO.input, ends the loop.
LoopAborts ==
  /\ script = "button_util"
  /\ \/ bw_pc \in {"while", "callback", "sleep"}
  /\ cb' = "none"
  /\ bw_pc' = "cleanup"
  /\ UNCHANGED <<script, clock, GPIO, via, pull_up, debounce_ms, on_press, on_release,
                 _running, _last_val, _last_change_ms, val, now>>
  /\ UNCHANGED historyVars
  /\ UNCHANGED besidesWatcher

\* button_util.py lines 100-101 and 106-112: finally: cleanup(), whose own
\* errors are swallowed; loop() returns.
Cleanup ==
  /\ script = "button_util"
  /\ bw_pc = "cleanup"
  /\ cleanups' = Capped(cleanups)
  /\ bw_pc' = "returned"
  /\ UNCHANGED <<script, clock, GPIO, via, pull_up, debounce_ms, on_press, on_release,
                 _running, _last_val, _last_change_ms, val, now, cb>>
  /\ UNCHANGED <<press_run, accepted, swallowed, invoked, pending>>
  /\ UNCHANGED besidesWatcher

NextWatcher ==
  \/ Construct
  \/ SetupFails
  \/ SetupOk
  \/ WatchButtonReturns
  \/ LoopNoGPIO
  \/ LoopEnter
  \/ Sample
  \/ CallbackReturns
  \/ CallbackRaises
  \/ Sleep
  \/ Stop
  \/ LoopExit
  \/ LoopAborts
  \/ Cleanup

-----------------------------------------------------------------------------
(* hello-on-center.py: the inline polling loop.                            *)

DEBOUNCE_MS == 150
SHOW_MS == 5000

\* Bounds of the hello-on-center model: the time that passes outside the 5 s
\* show windows, and the number of show windows.
MaxIdleTime == 302
MaxShows == 2

\* The times one step of the script may take: none, just under, exactly and
\* just over the debounce time.
HelloDeltas == {0, DEBOUNCE_MS - 1, DEBOUNCE_MS, DEBOUNCE_MS + 1}

InitHello ==
  /\ last = LOW
  /\ last_change = 0
  /\ h_pc = "unborn"
  /\ screen = "unknown"
  /\ backlight = "unknown"
  /\ bl_failed = FALSE

\* hello-on-center.py line 102: the test that accepts a sample.
HelloAccepts(v, prev, t, since) == v # prev /\ (t - since) > DEBOUNCE_MS

\* hello-on-center.py lines 60-64: bl(on) sets the backlight; an error of the
\* driver is swallowed and leaves the backlight as it was.
bl(on) == {IF on THEN "on" ELSE "off", backlight}

\* hello-on-center.py lines 30-56: GPIO and the display are set up (the
\* script starts at some time of the clock).
HelloBoot ==
  /\ script = "none"
  /\ script' = "hello"
  /\ clock' \in {0, DEBOUNCE_MS + 1}
  /\ h_pc' = "blank"
  /\ UNCHANGED <<last, last_change, screen, backlight, bl_failed, val, now>>
  /\ UNCHANGED historyVars
  /\ UNCHANGED besidesHello

\* hello-on-center.py lines 88-89: start with the screen off.
HelloBlank ==
  /\ script = "hello"
  /\ h_pc = "blank"
  /\ screen' = "black"
  /\ backlight' \in bl(FALSE)
  /\ bl_failed' = (bl_failed \/ backlight' # "off")
  /\ h_pc' = "read_last"
  /\ UNCHANGED <<script, clock, last, last_change, val, now>>
  /\ UNCHANGED historyVars
  /\ UNCHANGED besidesHello

\* hello-on-center.py line 88: show_black() raises before the try block: the
\* script dies without running the finally block.
HelloBlankFails ==
  /\ script = "hello"
  /\ h_pc = "blank"
  /\ h_pc' = "crashed"
  /\ UNCHANGED <<script, clock, last, last_change, screen, backlight, bl_failed, val, now>>
  /\ UNCHANGED historyVars
  /\ UNCHANGED besidesHello

\* hello-on-center.py lines 94-96: the first level is read; last_change = 0.0.
HelloReadLast ==
  /\ script = "hello"
  /\ h_pc = "read_last"
  /\ last' \in Levels
  /\ last_change' = 0
  /\ h_pc' = "while"
  /\ UNCHANGED <<script, clock, screen, backlight, bl_failed, val, now>>
  /\ UNCHANGED historyVars
  /\ UNCHANGED besidesHello

\* hello-on-center.py lines 100-105: one sample; a differing level after the
\* debounce time is accepted, and a LOW level is a press.
HelloSample ==
  /\ script = "hello"
  /\ h_pc = "while"
  /\ \E v \in Levels :
       /\ val' = v
       /\ now' = clock
       /\ IF HelloAccepts(v, last, clock, last_change)
            THEN /\ last_change' = clock
                 /\ last' = v
                 /\ accepted' = Transition(v, clock, TRUE, last_change, v = LOW)
                 /\ press_run' = IF v = LOW THEN Capped(press_run) ELSE 0
                 /\ invoked' = IF v = LOW THEN Capped(invoked) ELSE invoked
                 /\ h_pc' = IF v = LOW THEN "bl_on" ELSE "sleep"
            ELSE /\ h_pc' = "sleep"
                 /\ UNCHANGED <<last, last_change, accepted, press_run, invoked>>
  /\ UNCHANGED <<script, clock, screen, backlight, bl_failed, swallowed, cleanups, pending>>
  /\ UNCHANGED besidesHello

\* hello-on-center.py line 106: bl(True).
HelloBacklightOn ==
  /\ script = "hello"
  /\ h_pc = "bl_on"
  /\ backlight' \in bl(TRUE)
  /\ bl_failed' = (bl_failed \/ backlight' # "on")
  /\ h_pc' = "show_hello"
  /\ UNCHANGED <<script, clock, last, last_change, screen, val, now>>
  /\ UNCHANGED historyVars
  /\ UNCHANGED besidesHello

\* hello-on-center.py line 107: show_hello() draws the message.
HelloShow ==
  /\ script = "hello"
  /\ h_pc = "show_hello"
  /\ screen' = "hello"
  /\ h_pc' = "showing"
  /\ UNCHANGED <<script, clock, last, last_change, backlight, bl_failed, val, now>>
  /\ UNCHANGED historyVars
  /\ UNCHANGED besidesHello

\* hello-on-center.py line 108: time.sleep(5).
HelloHold ==
  /\ script = "hello"
  /\ h_pc = "showing"
  /\ clock \div SHOW_MS < MaxShows
  /\ clock' = clock + SHOW_MS
  /\ h_pc' = "show_black"
  /\ UNCHANGED <<script, last, last_change, screen, backlight, bl_failed, val, now>>
  /\ UNCHANGED historyVars
  /\ UNCHANGED besidesHello

\* hello-on-center.py lines 109-110: show_black(); bl(False).
HelloHide ==
  /\ script = "hello"
  /\ h_pc = "show_black"
  /\ screen' = "black"
  /\ backlight' \in bl(FALSE)
  /\ bl_failed' = (bl_failed \/ backlight' # "off")
  /\ h_pc' = "sleep"
  /\ UNCHANGED <<script, clock, last, last_change, val, now>>
  /\ UNCHANGED historyVars
  /\ UNCHANGED besidesHello

\* hello-on-center.py lines 107 and 109: a draw raises; the exception leaves
\* the loop through the finally block and ends the script.
HelloDrawFails ==
  /\ script = "hello"
  /\ h_pc \in {"show_hello", "show_black"}
  /\ screen' \in {screen, "unknown"}
  /\ h_pc' = "finally"
  /\ UNCHANGED <<script, clock, last, last_change, backlight, bl_failed, val, now>>
  /\ UNCHANGED historyVars
  /\ UNCHANGED besidesHello

\* hello-on-center.py line 111: time.sleep(0.02).
HelloSleep ==
  /\ script = "hello"
  /\ h_pc = "sleep"
  /\ \E d \in HelloDeltas : (clock % SHOW_MS) + d <= MaxIdleTime /\ clock' = clock + d
  /\ h_pc' = "while"
  /\ UNCHANGED <<script, last, last_change, screen, backlight, bl_failed, val, now>>
  /\ UNCHANGED historyVars
  /\ UNCHANGED besidesHello

\* hello-on-center.py lines 112-113: Ctrl+C anywhere inside the try block.
HelloInterrupt ==
  /\ script = "hello"
  /\ h_pc \in {"while", "bl_on", "show_hello", "showing", "show_black", "sleep"}
  /\ h_pc' = "finally"
  /\ UNCHANGED <<script, clock, last, last_change, screen, backlight, bl_failed, val, now>>
  /\ UNCHANGED historyVars
  /\ UNCHANGED besidesHello

\* hello-on-center.py lines 114-122: finally: show_black() and bl(False) in
\* one try whose errors are swallowed, then GPIO.cleanup().  When show_black()
\* raises, bl(False) is not called; a black frame that fails over a black
\* screen leaves it black.
HelloFinally ==
  /\ script = "hello"
  /\ h_pc = "finally"
  /\ \/ /\ screen' = "black"
        /\ backlight' \in bl(FALSE)
        /\ bl_failed' = (bl_failed \/ backlight' # "off")
     \/ /\ screen' \in (IF screen = "black" THEN {"black"} ELSE {screen, "unknown"})
        /\ UNCHANGED <<backlight, bl_failed>>
  /\ cleanups' = Capped(cleanups)
  /\ h_pc' = "exited"
  /\ UNCHANGED <<script, clock, last, last_change, val, now>>
  /\ UNCHANGED <<press_run, accepted, swallowed, invoked, pending>>
  /\ UNCHANGED besidesHello

NextHello ==
  \/ HelloBoot
  \/ HelloBlank
  \/ HelloBlankFails
  \/ HelloReadLast
  \/ HelloSample
  \/ HelloBacklightOn
  \/ HelloShow
  \/ HelloHold
  \/ HelloHide
  \/ HelloDrawFails
  \/ HelloSleep
  \/ HelloInterrupt
  \/ HelloFinally

-----------------------------------------------------------------------------
(* Texts.  A text is a sequence of runs <<character, count>> in which      *)
(* neighbouring runs differ in their character: "aa b" is                  *)
(* <<<<"a", 2>>, <<" ", 1>>, <<"b", 1>>>>.  The operators below are        *)
(* Python's len, str.strip and slicing on that representation.              *)

TEXT_LIMIT == 256

\* Bound of the texts a request may carry: the number of runs.
MaxRuns == 3

WS == " "

Empty == <<>>

\* Python's None where a text is expected.
NoneText == <<<<"None", 0>>>>

RECURSIVE len(_)
len(s) == IF s = <<>> THEN 0 ELSE s[1][2] + len(Tail(s))

RECURSIVE lstrip(_)
lstrip(s) == IF s # <<>> /\ s[1][1] = WS THEN lstrip(Tail(s)) ELSE s

RECURSIVE rstrip(_)
rstrip(s) ==
  IF s # <<>> /\ s[Len(s)][1] = WS THEN rstrip(SubSeq(s, 1, Len(s) - 1)) ELSE s

strip(s) == rstrip(lstrip(s))

\* s[:n]
RECURSIVE slice(_, _)
slice(s, n) ==
  IF s = <<>> \/ n <= 0 THEN <<>>
  ELSE IF s[1][2] >= n THEN <<<<s[1][1], n>>>>
  ELSE <<s[1]>> \o slice(Tail(s), n - s[1][2])

Chars == {WS, "a"}

RunLengths == {1, TEXT_LIMIT, TEXT_LIMIT + 1}

Alternates(s) == \A i \in 1..(Len(s) - 1) : s[i][1] # s[i + 1][1]

TextsOfRuns(k) == {s \in [1..k -> Chars \X RunLengths] : Alternates(s)}

\* Every text of at most MaxRuns runs.
InputTexts == UNION {TextsOfRuns(k) : k \in 0..MaxRuns}

\* The few texts the concurrent specification posts.
TextA == <<<<"a", 1>>>>

TextB == <<<<"b", 1>>>>

-----------------------------------------------------------------------------
(* flask_server.py: the request handlers and the button thread.            *)

\* Bounds of the server model: the request-handler threads, the width of the
\* range the environment may give the random amount, and the button presses.
NumThreads == 2
MaxSpan == 1
MaxPresses == 1

BTN_MIN_DEFAULT == 100

\* state_lock unlocked, and the id of the button thread.
Free == -1
BTN_THREAD == 0

Threads == 1..NumThreads

\* The exceptions a draw may raise, by message.
DrawErrors == {"EIO", "ENODEV"}

\* What the panel shows: nothing drawn yet, a rendered message, a rendered
\* amount (the number followed by BTN_SUFFIX), or the black screen.
Shown(k, t, n) == [kind |-> k, text |-> t, amount |-> n]

NothingShown == Shown("init", Empty, 0)

ShownText(t) == Shown("text", t, 0)

ShownAmount(n) == Shown("amount", Empty, n)

ShownBlack == Shown("black", Empty, 0)

\* Marks in the record of what a button handler did: it slept BTN_SHOW_MS,
\* it was left by an exception.
Slept == Shown("slept", Empty, 0)

Raised == Shown("raised", Empty, 0)

\* A handler thread: its position, the texts the request gave (JSON body,
\* form field, query parameter), the message, the exception raised, and the
\* response (status, the 'displayed' or 'text' field, the 'error' field).
IdleRequest ==
  [pc |-> "idle", given |-> <<NoneText, NoneText, NoneText>>, message |-> NoneText,
   exc |-> "none", status |-> 0, body |-> NoneText, error |-> "none"]

IdleButton == [pc |-> "idle", prev |-> NoneText, seen |-> NoneText, drew |-> <<>>]

InitServer ==
  /\ srv = "unborn"
  /\ BTN_RESTORE_PREV = TRUE
  /\ BTN_MIN = BTN_MIN_DEFAULT
  /\ BTN_MAX = BTN_MIN_DEFAULT
  /\ current_text = Empty
  /\ state_lock = Free
  /\ display = NothingShown
  /\ srv_backlight = "off"
  /\ drawing = {}
  /\ req = [t \in Threads |-> IdleRequest]
  /\ btn = IdleButton
  /\ last_rendered = NothingShown
  /\ last_assigned = Empty
  /\ presses = 0
  /\ draw_failed = FALSE

\* Python truthiness of an optional text.
Truthy(m) == m # NoneText /\ m # Empty

\* a or b
Or(a, b) == IF Truthy(a) THEN a ELSE b

\* flask_server.py lines 164-168: the text of a request, from the JSON body,
\* else the form field, else the query parameter.
RequestText(json, form, args) == IF Truthy(json) THEN json ELSE Or(form, args)

\* flask_server.py line 169: the request is rejected.
Missing(m) == m = NoneText

\* A text that is stripped but not cut: what C4 must tell apart from Clean.
CleanUncut(m) == strip(m)

\* flask_server.py lines 172-174: stripped, then cut to 256 characters.
Clean(m) == IF len(strip(m)) > TEXT_LIMIT THEN slice(strip(m), TEXT_LIMIT) ELSE strip(m)

\* An answer taken from the panel: what C7 must tell apart from GetBody.
GetBodyFromDisplay == display.text

\* flask_server.py line 157: what GET /display answers.
GetBody == current_text

\* A lock that an exception leaves with its owner: what C9 must tell apart
\* from LockAfterException.
LockLeftHeld(t) == t

\* flask_server.py lines 175-177: the lock after the with block is left by
\* an exception.
LockAfterException(t) == Free

\* A handler that captures no text: what C8 must tell apart from Captured.
CapturedNothing(ct) == Empty

\* flask_server.py line 222: prev = current_text.
Captured(ct) == ct

\* flask_server.py lines 47-124, 189-196 and 240-249: the configuration is
\* read, the display is opened and the server runs.
ServerStart(restore, span) ==
  /\ srv = "unborn"
  /\ srv' = "running"
  /\ BTN_RESTORE_PREV' = restore
  /\ BTN_MIN' = BTN_MIN_DEFAULT
  /\ BTN_MAX' = BTN_MIN_DEFAULT + span
  /\ srv_backlight' = "on"
  /\ UNCHANGED <<current_text, state_lock, display, drawing, req, btn>>
  /\ UNCHANGED serverHistory
  /\ UNCHANGED besidesServer

\* flask_server.py lines 160-174: POST /display is received and its text is
\* found, or the request is answered 400.
PostReceive(t, json, form, args) ==
  /\ srv = "running"
  /\ req[t].pc = "idle"
  /\ LET m == RequestText(json, form, args)
     IN req' = [req EXCEPT ![t] =
          IF Missing(m)
            THEN [IdleRequest EXCEPT !.pc = "responded", !.given = <<json, form, args>>,
                                     !.status = 400, !.error = "Missing 'text'"]
            ELSE [IdleRequest EXCEPT !.pc = "post_lock", !.given = <<json, form, args>>,
                                     !.message = Clean(m)]]
  /\ UNCHANGED <<srv, BTN_RESTORE_PREV, BTN_MIN, BTN_MAX, current_text, state_lock,
                 display, srv_backlight, drawing, btn>>
  /\ UNCHANGED serverHistory
  /\ UNCHANGED besidesServer

\* flask_server.py line 175: with state_lock (acquire).
PostAcquire(t) ==
  /\ req[t].pc = "post_lock"
  /\ state_lock = Free
  /\ state_lock' = t
  /\ req' = [req EXCEPT ![t].pc = "post_assign"]
  /\ last_assigned' = req[t].message
  /\ UNCHANGED <<srv, BTN_RESTORE_PREV, BTN_MIN, BTN_MAX, current_text, display,
                 srv_backlight, drawing, btn, last_rendered, presses, draw_failed>>
  /\ UNCHANGED besidesServer

\* flask_server.py line 176: current_text = message.
PostAssign(t) ==
  /\ req[t].pc = "post_assign"
  /\ current_text' = req[t].message
  /\ req' = [req EXCEPT ![t].pc = "post_draw"]
  /\ UNCHANGED <<srv, BTN_RESTORE_PREV, BTN_MIN, BTN_MAX, state_lock, display,
                 srv_backlight, drawing, btn>>
  /\ UNCHANGED serverHistory
  /\ UNCHANGED besidesServer

\* flask_server.py line 177: render_text(message) starts to draw.
PostDrawBegin(t) ==
  /\ req[t].pc = "post_draw"
  /\ drawing' = drawing \cup {t}
  /\ req' = [req EXCEPT ![t].pc = "post_drawing"]
  /\ UNCHANGED <<srv, BTN_RESTORE_PREV, BTN_MIN, BTN_MAX, current_text, state_lock,
                 display, srv_backlight, btn>>
  /\ UNCHANGED serverHistory
  /\ UNCHANGED besidesServer

\* flask_server.py line 177: the draw returns, the panel shows the message.
PostDrawEnd(t) ==
  /\ req[t].pc = "post_drawing"
  /\ drawing' = drawing \ {t}
  /\ display' = ShownText(req[t].message)
  /\ last_rendered' = ShownText(req[t].message)
  /\ req' = [req EXCEPT ![t].pc = "post_release"]
  /\ UNCHANGED <<srv, BTN_RESTORE_PREV, BTN_MIN, BTN_MAX, current_text, state_lock,
                 srv_backlight, btn, last_assigned, presses, draw_failed>>
  /\ UNCHANGED besidesServer

\* flask_server.py line 177: the draw raises; the panel keeps what it showed.
PostDrawFails(t, e) ==
  /\ req[t].pc = "post_drawing"
  /\ drawing' = drawing \ {t}
  /\ req' = [req EXCEPT ![t].pc = "post_except", ![t].exc = e]
  /\ draw_failed' = TRUE
  /\ UNCHANGED <<srv, BTN_RESTORE_PREV, BTN_MIN, BTN_MAX, current_text, state_lock,
                 display, srv_backlight, btn>>
  /\ UNCHANGED <<last_rendered, last_assigned, presses>>
  /\ UNCHANGED besidesServer

\* flask_server.py lines 175-178: the with block ends, the lock is released
\* and 200 is answered with the displayed text.
PostRelease(t) ==
  /\ req[t].pc = "post_release"
  /\ state_lock' = Free
  /\ req' = [req EXCEPT ![t].pc = "responded", ![t].status = 200,
                        ![t].body = req[t].message]
  /\ UNCHANGED <<srv, BTN_RESTORE_PREV, BTN_MIN, BTN_MAX, current_text, display,
                 srv_backlight, drawing, btn>>
  /\ UNCHANGED serverHistory
  /\ UNCHANGED besidesServer

\* flask_server.py lines 175-180: the exception leaves the with block and is
\* answered 500 with its message.
PostExcept(t) ==
  /\ req[t].pc = "post_except"
  /\ state_lock' = LockAfterException(t)
  /\ req' = [req EXCEPT ![t].pc = "responded", ![t].status = 500,
                        ![t].error = req[t].exc]
  /\ UNCHANGED <<srv, BTN_RESTORE_PREV, BTN_MIN, BTN_MAX, current_text, display,
                 srv_backlight, drawing, btn>>
  /\ UNCHANGED serverHistory
  /\ UNCHANGED besidesServer

\* flask_server.py lines 154-156: GET /display is received.
GetReceive(t) ==
  /\ srv = "running"
  /\ req[t].pc = "idle"
  /\ req' = [req EXCEPT ![t].pc = "get_lock"]
  /\ UNCHANGED <<srv, BTN_RESTORE_PREV, BTN_MIN, BTN_MAX, current_text, state_lock,
                 display, srv_backlight, drawing, btn>>
  /\ UNCHANGED serverHistory
  /\ UNCHANGED besidesServer

\* flask_server.py line 156: with state_lock (acquire).
GetAcquire(t) ==
  /\ req[t].pc = "get_lock"
  /\ state_lock = Free
  /\ state_lock' = t
  /\ req' = [req EXCEPT ![t].pc = "get_read"]
  /\ UNCHANGED <<srv, BTN_RESTORE_PREV, BTN_MIN, BTN_MAX, current_text, display,
                 srv_backlight, drawing, btn>>
  /\ UNCHANGED serverHistory
  /\ UNCHANGED besidesServer

\* flask_server.py lines 156-157: current_text is read, the lock released and
\* 200 answered.
GetRead(t) ==
  /\ req[t].pc = "get_read"
  /\ state_lock' = Free
  /\ req' = [req EXCEPT ![t].pc = "got", ![t].status = 200, ![t].body = GetBody]
  /\ UNCHANGED <<srv, BTN_RESTORE_PREV, BTN_MIN, BTN_MAX, current_text, display,
                 srv_backlight, drawing, btn>>
  /\ UNCHANGED serverHistory
  /\ UNCHANGED besidesServer

\* The response is sent and the handler thread ends.
Respond(t) ==
  /\ req[t].pc \in {"responded", "got"}
  /\ req' = [req EXCEPT ![t] = IdleRequest]
  /\ UNCHANGED <<srv, BTN_RESTORE_PREV, BTN_MIN, BTN_MAX, current_text, state_lock,
                 display, srv_backlight, drawing, btn>>
  /\ UNCHANGED serverHistory
  /\ UNCHANGED besidesServer

\* flask_server.py lines 199-203: _bl(on) asks the driver for the backlight.
_bl(on) == IF on THEN "on" ELSE "off"

\* flask_server.py lines 219-221 (and button_util.py line 85): the watcher
\* accepts a press and calls on_press, which asks for the lock.
ButtonPress ==
  /\ srv = "running"
  /\ btn.pc = "idle"
  /\ presses < MaxPresses
  /\ presses' = presses + 1
  /\ btn' = [IdleButton EXCEPT !.pc = "lock_prev"]
  /\ UNCHANGED <<srv, BTN_RESTORE_PREV, BTN_MIN, BTN_MAX, current_text, state_lock,
                 display, srv_backlight, drawing, req, last_rendered, last_assigned,
                 draw_failed>>
  /\ UNCHANGED besidesServer

\* flask_server.py line 221: with state_lock (acquire).
ButtonAcquire ==
  /\ btn.pc \in {"lock_prev", "lock_restore"}
  /\ state_lock = Free
  /\ state_lock' = BTN_THREAD
  /\ btn' = [btn EXCEPT !.pc = IF btn.pc = "lock_prev" THEN "read_prev" ELSE "restore"]
  /\ UNCHANGED <<srv, BTN_RESTORE_PREV, BTN_MIN, BTN_MAX, current_text, display,
                 srv_backlight, drawing, req>>
  /\ UNCHANGED serverHistory
  /\ UNCHANGED besidesServer

\* flask_server.py lines 221-223: prev = current_text, the lock is released
\* and the backlight switched on.
ButtonReadPrev ==
  /\ btn.pc = "read_prev"
  /\ state_lock' = Free
  /\ btn' = [btn EXCEPT !.pc = "amount", !.prev = Captured(current_text),
                        !.seen = current_text]
  /\ srv_backlight' = _bl(TRUE)
  /\ UNCHANGED <<srv, BTN_RESTORE_PREV, BTN_MIN, BTN_MAX, current_text, display,
                 drawing, req>>
  /\ UNCHANGED serverHistory
  /\ UNCHANGED besidesServer

\* flask_server.py lines 206-209 and 224: render_random_amount() draws a
\* random amount, without the lock.
ButtonAmountBegin ==
  /\ btn.pc = "amount"
  /\ BTN_MIN <= BTN_MAX
  /\ drawing' = drawing \cup {BTN_THREAD}
  /\ btn' = [btn EXCEPT !.pc = "amount_drawing"]
  /\ UNCHANGED <<srv, BTN_RESTORE_PREV, BTN_MIN, BTN_MAX, current_text, state_lock,
                 display, srv_backlight, req>>
  /\ UNCHANGED serverHistory
  /\ UNCHANGED besidesServer

\* flask_server.py lines 208-210: the amount is on the panel.
ButtonAmountEnd ==
  /\ btn.pc = "amount_drawing"
  /\ \E n \in BTN_MIN..BTN_MAX :
       /\ display' = ShownAmount(n)
       /\ last_rendered' = ShownAmount(n)
       /\ btn' = [btn EXCEPT !.pc = "showing", !.drew = Append(btn.drew, ShownAmount(n))]
  /\ drawing' = drawing \ {BTN_THREAD}
  /\ UNCHANGED <<srv, BTN_RESTORE_PREV, BTN_MIN, BTN_MAX, current_text, state_lock,
                 srv_backlight, req, last_assigned, presses, draw_failed>>
  /\ UNCHANGED besidesServer

\* flask_server.py line 225: time.sleep(BTN_SHOW_MS / 1000.0).
ButtonShow ==
  /\ btn.pc = "showing"
  /\ btn' = [btn EXCEPT !.pc = IF BTN_RESTORE_PREV THEN "lock_restore" ELSE "black",
                        !.drew = Append(btn.drew, Slept)]
  /\ UNCHANGED <<srv, BTN_RESTORE_PREV, BTN_MIN, BTN_MAX, current_text, state_lock,
                 display, srv_backlight, drawing, req>>
  /\ UNCHANGED serverHistory
  /\ UNCHANGED besidesServer

\* flask_server.py lines 227-228: render_text(prev or "") starts, in the lock.
ButtonRestoreBegin ==
  /\ btn.pc = "restore"
  /\ drawing' = drawing \cup {BTN_THREAD}
  /\ btn' = [btn EXCEPT !.pc = "restore_drawing"]
  /\ UNCHANGED <<srv, BTN_RESTORE_PREV, BTN_MIN, BTN_MAX, current_text, state_lock,
                 display, srv_backlight, req>>
  /\ UNCHANGED serverHistory
  /\ UNCHANGED besidesServer

\* flask_server.py lines 227-228: the previous text is on the panel again and
\* the lock is released; on_press returns.
ButtonRestoreEnd ==
  /\ btn.pc = "restore_drawing"
  /\ drawing' = drawing \ {BTN_THREAD}
  /\ display' = ShownText(Or(btn.prev, Empty))
  /\ last_rendered' = ShownText(Or(btn.prev, Empty))
  /\ state_lock' = Free
  /\ btn' = [btn EXCEPT !.pc = "idle",
                        !.drew = Append(btn.drew, ShownText(Or(btn.prev, Empty)))]
  /\ UNCHANGED <<srv, BTN_RESTORE_PREV, BTN_MIN, BTN_MAX, current_text,
                 srv_backlight, req, last_assigned, presses, draw_failed>>
  /\ UNCHANGED besidesServer

\* flask_server.py line 231: the black screen is drawn, without the lock.
ButtonBlackBegin ==
  /\ btn.pc = "black"
  /\ drawing' = drawing \cup {BTN_THREAD}
  /\ btn' = [btn EXCEPT !.pc = "black_drawing"]
  /\ UNCHANGED <<srv, BTN_RESTORE_PREV, BTN_MIN, BTN_MAX, current_text, state_lock,
                 display, srv_backlight, req>>
  /\ UNCHANGED serverHistory
  /\ UNCHANGED besidesServer

\* flask_server.py lines 231-232: the panel is black, the backlight is
\* switched off; on_press returns.
ButtonBlackEnd ==
  /\ btn.pc = "black_drawing"
  /\ drawing' = drawing \ {BTN_THREAD}
  /\ display' = ShownBlack
  /\ srv_backlight' = _bl(FALSE)
  /\ btn' = [btn EXCEPT !.pc = "idle", !.drew = Append(btn.drew, ShownBlack)]
  /\ UNCHANGED <<srv, BTN_RESTORE_PREV, BTN_MIN, BTN_MAX, current_text, state_lock, req>>
  /\ UNCHANGED serverHistory
  /\ UNCHANGED besidesServer

\* flask_server.py lines 208, 224, 228 and 231 (and button_util.py lines
\* 84-87): randint raises for an empty range, or a draw raises; the
\* exception leaves on_press, releasing the lock if held, and the watcher
\* swallows it.
ButtonRaises ==
  /\ \/ btn.pc = "amount" /\ BTN_MIN > BTN_MAX
     \/ btn.pc \in {"amount_drawing", "restore_drawing", "black_drawing"}
  /\ drawing' = drawing \ {BTN_THREAD}
  /\ state_lock' = IF state_lock = BTN_THREAD THEN Free ELSE state_lock
  /\ btn' = [btn EXCEPT !.pc = "idle", !.drew = Append(btn.drew, Raised)]
  /\ draw_failed' = TRUE
  /\ UNCHANGED <<srv, BTN_RESTORE_PREV, BTN_MIN, BTN_MAX, current_text, display,
                 srv_backlight, req>>
  /\ UNCHANGED <<last_rendered, last_assigned, presses>>
  /\ UNCHANGED besidesServer

-----------------------------------------------------------------------------
(* Python strings.  A str is a TLA+ string; the operators below are the    *)
(* str methods and builtins the configuration code uses, over the          *)
(* characters that occur in the model (of the characters str.isspace and   *)
(* str.splitlines know, the blank, tab, line feed, carriage return and     *)
(* form feed).                                                             *)

Char(s, i) == SubSeq(s, i, i)

Whitespace == {" ", "\t", "\n", "\r", "\f"}

RECURSIVE str_lstrip(_)
str_lstrip(s) ==
  IF Len(s) > 0 /\ Char(s, 1) \in Whitespace THEN str_lstrip(SubSeq(s, 2, Len(s))) ELSE s

RECURSIVE str_rstrip(_)
str_rstrip(s) ==
  IF Len(s) > 0 /\ Char(s, Len(s)) \in Whitespace
    THEN str_rstrip(SubSeq(s, 1, Len(s) - 1))
    ELSE s

\* s.strip()
str_strip(s) == str_rstrip(str_lstrip(s))

\* s.find(c) + 1: the position of the first c in s, 0 when there is none.
find(s, c) ==
  IF \E i \in 1..Len(s) : Char(s, i) = c
    THEN CHOOSE i \in 1..Len(s) : Char(s, i) = c /\ \A j \in 1..(i - 1) : Char(s, j) # c
    ELSE 0

\* c in s
contains(s, c) == find(s, c) > 0

\* s.startswith(c)
startswith(s, c) == Len(s) >= 1 /\ Char(s, 1) = c

\* s.split(c, 1), for an s that contains c
split1(s, c) == <<SubSeq(s, 1, find(s, c) - 1), SubSeq(s, find(s, c) + 1, Len(s))>>

\* The characters at which str.splitlines breaks a line.
LineBoundaries == {"\n", "\r", "\f"}

FirstBoundary(s) ==
  IF \E i \in 1..Len(s) : Char(s, i) \in LineBoundaries
    THEN CHOOSE i \in 1..Len(s) :
           Char(s, i) \in LineBoundaries /\ \A j \in 1..(i - 1) : Char(s, j) \notin LineBoundaries
    ELSE 0

\* s.splitlines(): the lines of s without their ends; "\r\n" is one line
\* end, and a line end at the end of s starts no further line.
RECURSIVE splitlines(_)
splitlines(s) ==
  IF Len(s) = 0 THEN <<>>
  ELSE LET i == FirstBoundary(s)
           skip == IF i > 0 /\ i < Len(s) /\ Char(s, i) = "\r" /\ Char(s, i + 1) = "\n"
                     THEN 2 ELSE 1
       IN IF i = 0 THEN <<s>>
          ELSE <<SubSeq(s, 1, i - 1)>> \o splitlines(SubSeq(s, i + skip, Len(s)))

\* Path.read_text(): text mode with universal newlines turns "\r\n" and
\* "\r" into "\n".
RECURSIVE read_text(_)
read_text(s) ==
  LET i == find(s, "\r")
  IN IF i = 0 THEN s
     ELSE SubSeq(s, 1, i - 1) \o "\n"
            \o read_text(SubSeq(s, IF i < Len(s) /\ Char(s, i + 1) = "\n" THEN i + 2 ELSE i + 1,
                                Len(s)))

\* sep.join(lines)
RECURSIVE join(_, _)
join(sep, lines) ==
  IF Len(lines) = 0 THEN ""
  ELSE IF Len(lines) = 1 THEN lines[1]
  ELSE lines[1] \o sep \o join(sep, Tail(lines))

Digits == "0123456789"

IsDigit(c) == \E i \in 1..Len(Digits) : Char(Digits, i) = c

DigitValue(c) == (CHOOSE i \in 1..Len(Digits) : Char(Digits, i) = c) - 1

RECURSIVE Decimal(_)
Decimal(s) ==
  IF Len(s) = 0 THEN 0
  ELSE 10 * Decimal(SubSeq(s, 1, Len(s) - 1)) + DigitValue(Char(s, Len(s)))

\* The digits of an integer literal: s stripped, without its sign.
Magnitude(s) ==
  LET t == str_strip(s)
  IN IF startswith(t, "-") \/ startswith(t, "+") THEN SubSeq(t, 2, Len(t)) ELSE t

\* int(s) raises ValueError unless s is an optional sign and digits.
IsInt(s) == Len(Magnitude(s)) >= 1 /\ \A i \in 1..Len(Magnitude(s)) : IsDigit(Char(Magnitude(s), i))

\* int(s)
int(s) == IF startswith(str_strip(s), "-") THEN 0 - Decimal(Magnitude(s)) ELSE Decimal(Magnitude(s))

UpperCase == "ABCDEFGHIJKLMNOPQRSTUVWXYZ"

LowerCase == "abcdefghijklmnopqrstuvwxyz"

LowerChar(c) ==
  IF \E i \in 1..Len(UpperCase) : Char(UpperCase, i) = c
    THEN Char(LowerCase, CHOOSE i \in 1..Len(UpperCase) : Char(UpperCase, i) = c)
    ELSE c

\* s.lower()
RECURSIVE lower(_)
lower(s) == IF Len(s) = 0 THEN "" ELSE LowerChar(Char(s, 1)) \o lower(SubSeq(s, 2, Len(s)))

-----------------------------------------------------------------------------
(* The LCD_* settings of lcd-test.py, flask_server.py, lcd-ping.py and     *)
(* lcd-off.py: lcd.env is loaded into os.environ, the settings are read    *)
(* with their defaults, and the preset fills in what is still unset.       *)

Scripts == {"lcd-test.py", "flask_server.py", "lcd-ping.py", "lcd-off.py"}

\* The bound of the settings model: the lines of lcd.env.
MaxLines == 2

\* os.environ as a dict: a function from the names that are set.
setitem(env, k, v) == [x \in DOMAIN env \cup {k} |-> IF x = k THEN v ELSE env[x]]

\* A loader that overwrites what the environment holds: what C13 must tell
\* apart from setdefault.
setdefault_overwriting(env, k, v) == setitem(env, k, v)

\* os.environ.setdefault(k, v)
setdefault(env, k, v) == IF k \in DOMAIN env THEN env ELSE setitem(env, k, v)

\* os.getenv(k, d)
getenv(env, k, d) == IF k \in DOMAIN env THEN env[k] ELSE d

\* The loop body of _load_env_file: blank lines, comments and lines without
\* "=" are skipped.
Skipped(line) ==
  \/ str_strip(line) = ""
  \/ startswith(str_strip(line), "#")
  \/ ~contains(str_strip(line), "=")

LineKey(line) == str_strip(split1(str_strip(line), "=")[1])

LineValue(line) == str_strip(split1(str_strip(line), "=")[2])

LoadLine(env, line) ==
  IF Skipped(line) THEN env ELSE setdefault(env, LineKey(line), LineValue(line))

\* The defaults of the os.getenv calls that are passed to int().
CommonDefaults ==
  ("LCD_PORT" :> "0") @@ ("LCD_CS" :> "0") @@ ("LCD_DC" :> "9") @@ ("LCD_BL" :> "19")
  @@ ("LCD_ROT" :> "90") @@ ("LCD_SPEED" :> "4000000") @@ ("LCD_RST" :> "-1")

WindowDefaults ==
  ("LCD_WIDTH" :> "128") @@ ("LCD_HEIGHT" :> "128") @@ ("LCD_OX" :> "0") @@ ("LCD_OY" :> "0")

IntDefaults(s) ==
  CASE s = "lcd-test.py" -> CommonDefaults @@ WindowDefaults
    [] s = "flask_server.py" -> CommonDefaults @@ WindowDefaults
    [] s = "lcd-ping.py" ->
         ("LCD_CS" :> "1") @@ CommonDefaults @@ WindowDefaults
         @@ ("LCD_CYCLES" :> "2") @@ ("LCD_DELAY_MS" :> "500")
    [] s = "lcd-off.py" -> ("LCD_CS" :> "1") @@ CommonDefaults

\* The defaults of the settings that are compared with the words for "on".
BoolDefaults(s) ==
  CASE s = "lcd-test.py" ->
         ("LCD_INVERT" :> "0") @@ ("LCD_BL_ACTIVE" :> "1") @@ ("LCD_TESTPAT" :> "0")
    [] s = "flask_server.py" -> ("LCD_INVERT" :> "0") @@ ("LCD_BL_ACTIVE" :> "1")
    [] s = "lcd-ping.py" -> ("LCD_BL_ACTIVE" :> "1")
    [] s = "lcd-off.py" -> ("LCD_BL_ACTIVE" :> "1")

TrueWords == {"1", "true", "True", "yes", "on"}

PresetNames == {"waveshare144", "waveshare-1.44", "waveshare"}

PinPreset ==
  ("LCD_DC" :> 25) @@ ("LCD_BL" :> 24) @@ ("LCD_RST" :> 27) @@ ("LCD_CS" :> 0)
  @@ ("LCD_PORT" :> 0)

WindowPreset ==
  ("LCD_WIDTH" :> 128) @@ ("LCD_HEIGHT" :> 128) @@ ("LCD_OX" :> 2) @@ ("LCD_OY" :> 3)

\* The values the preset block assigns.
PresetTable(s) ==
  CASE s = "lcd-test.py" -> PinPreset @@ ("LCD_ROT" :> 90) @@ WindowPreset
    [] s = "flask_server.py" -> PinPreset @@ ("LCD_ROT" :> 90) @@ WindowPreset
    [] s = "lcd-ping.py" -> PinPreset @@ ("LCD_ROT" :> 0) @@ WindowPreset
    [] s = "lcd-off.py" -> PinPreset @@ ("LCD_ROT" :> 0)

\* The settings as the os.getenv lines leave them, before the preset block.
ReadSettings(s, env) ==
  [k \in DOMAIN IntDefaults(s) |-> int(getenv(env, k, IntDefaults(s)[k]))]
  @@ [k \in DOMAIN BoolDefaults(s) |-> getenv(env, k, BoolDefaults(s)[k]) \in TrueWords]
  @@ ("LCD_PRESET" :> lower(getenv(env, "LCD_PRESET", "")))

\* The preset block: for a preset name, each setting of the table that
\* os.getenv does not find is assigned the preset value.
ApplyPreset(s, env, cfg) ==
  IF cfg["LCD_PRESET"] \in PresetNames
    THEN [k \in DOMAIN cfg |->
            IF k \in DOMAIN PresetTable(s) /\ k \notin DOMAIN env
              THEN PresetTable(s)[k] ELSE cfg[k]]
    ELSE cfg

\* The process environments of the model.
EnvCandidates ==
  {<<"LCD_DC", "7">>, <<"LCD_PRESET", "WaveShare">>, <<"LCD_PRESET", "st7735">>,
   <<"LCD_BL_ACTIVE", "0">>}

NoEnviron == [k \in {} |-> ""]

Environs ==
  {[k \in {p[1] : p \in S} |-> (CHOOSE p \in S : p[1] = k)[2]] :
     S \in {T \in SUBSET EnvCandidates : \A p, q \in T : p[1] = q[1] => p = q}}

\* The lines of lcd.env in the model.
EnvLines ==
  {"LCD_DC=8", "  LCD_DC = 5  ", "# LCD_ROT=8", "LCD_ROT", "LCD_ROT=270",
   "LCD_PRESET=Waveshare-1.44", "LCD_SPEED=fast", ""}

FileOf(lines) == [state |-> "ok", text |-> join("\n", lines) \o "\n"]

NoFile == [state |-> "missing", text |-> ""]

EnvFiles ==
  {NoFile, [state |-> "unreadable", text |-> "LCD_DC=8\n"]}
  \cup {FileOf(lines) : lines \in UNION {[1..n -> EnvLines] : n \in 0..MaxLines}}

InitEnv ==
  /\ e_pc = "unborn"
  /\ e_script = "none"
  /\ environ = NoEnviron
  /\ environ0 = NoEnviron
  /\ lcd_env = NoFile
  /\ e_lines = <<>>
  /\ config = NoEnviron

\* A script is started in some environment, with some lcd.env beside it.
EnvStart ==
  /\ e_pc = "unborn"
  /\ environ' \in Environs
  /\ lcd_env' \in EnvFiles
  /\ e_script' \in Scripts
  /\ environ0' = environ'
  /\ e_pc' = "load"
  /\ UNCHANGED <<e_lines, config>>
  /\ UNCHANGED besidesEnv

\* _load_env_file: the file does not exist, or reading it raises, which is
\* swallowed; nothing is loaded.
EnvFileSkipped ==
  /\ e_pc = "load"
  /\ lcd_env.state \in {"missing", "unreadable"}
  /\ e_pc' = "read"
  /\ UNCHANGED <<e_script, environ, environ0, lcd_env, e_lines, config>>
  /\ UNCHANGED besidesEnv

\* _load_env_file: fn.read_text().splitlines()
EnvFileRead ==
  /\ e_pc = "load"
  /\ lcd_env.state = "ok"
  /\ e_lines' = splitlines(read_text(lcd_env.text))
  /\ e_pc' = "lines"
  /\ UNCHANGED <<e_script, environ, environ0, lcd_env, config>>
  /\ UNCHANGED besidesEnv

\* _load_env_file: one line of the file.
EnvLoadLine ==
  /\ e_pc = "lines"
  /\ e_lines # <<>>
  /\ environ' = LoadLine(environ, Head(e_lines))
  /\ e_lines' = Tail(e_lines)
  /\ UNCHANGED <<e_pc, e_script, environ0, lcd_env, config>>
  /\ UNCHANGED besidesEnv

\* _load_env_file returns after the last line.
EnvLoaded ==
  /\ e_pc = "lines"
  /\ e_lines = <<>>
  /\ e_pc' = "read"
  /\ UNCHANGED <<e_script, environ, environ0, lcd_env, e_lines, config>>
  /\ UNCHANGED besidesEnv

\* The os.getenv lines: every setting is read with its default.
EnvRead ==
  /\ e_pc = "read"
  /\ \A k \in DOMAIN IntDefaults(e_script) : IsInt(getenv(environ, k, IntDefaults(e_script)[k]))
  /\ config' = ReadSettings(e_script, environ)
  /\ e_pc' = "preset"
  /\ UNCHANGED <<e_script, environ, environ0, lcd_env, e_lines>>
  /\ UNCHANGED besidesEnv

\* The os.getenv lines: int() raises ValueError and the script ends.
EnvReadFails ==
  /\ e_pc = "read"
  /\ \E k \in DOMAIN IntDefaults(e_script) : ~IsInt(getenv(environ, k, IntDefaults(e_script)[k]))
  /\ e_pc' = "crashed"
  /\ UNCHANGED <<e_script, environ, environ0, lcd_env, e_lines, config>>
  /\ UNCHANGED besidesEnv

\* The preset block.
EnvPreset ==
  /\ e_pc = "preset"
  /\ config' = ApplyPreset(e_script, environ, config)
  /\ e_pc' = "configured"
  /\ UNCHANGED <<e_script, environ, environ0, lcd_env, e_lines>>
  /\ UNCHANGED besidesEnv

NextEnv ==
  \/ EnvStart
  \/ EnvFileSkipped
  \/ EnvFileRead
  \/ EnvLoadLine
  \/ EnvLoaded
  \/ EnvRead
  \/ EnvReadFails
  \/ EnvPreset

-----------------------------------------------------------------------------
(* config-lcd.py: write_env_file and load_existing_env_file.               *)

\* config-lcd.py lines 37-61: the supported keys, in prompt order.
KEYS ==
  <<"LCD_PRESET", "LCD_PORT", "LCD_CS", "LCD_DC", "LCD_BL", "LCD_RST", "LCD_ROT",
    "LCD_SPEED", "LCD_WIDTH", "LCD_HEIGHT", "LCD_OX", "LCD_OY", "LCD_INVERT",
    "LCD_BL_ACTIVE", "BTN_UP", "BTN_DOWN", "BTN_LEFT", "BTN_RIGHT", "BTN_CENTER",
    "BTN_A", "BTN_B", "BTN_ACTIVE_LOW", "BTN_DEBOUNCE_MS">>

\* The keys of KEYS that a dict has, in KEYS order.
KeysIn(values) == SelectSeq(KEYS, LAMBDA k : k \in DOMAIN values)

\* config-lcd.py lines 122-128: the text write_env_file writes.
EnvFileText(values) ==
  LET ks == KeysIn(values)
  IN join("\n", <<"# Saved by config-lcd.py">>
                  \o [i \in 1..Len(ks) |-> ks[i] \o "=" \o values[ks[i]]]) \o "\n"

\* config-lcd.py lines 111-117: the loop body of load_existing_env_file; a
\* later line for a key replaces an earlier one.
LoadExistingLine(values, line) ==
  IF Skipped(line) THEN values ELSE setitem(values, LineKey(line), LineValue(line))

\* The dicts given to write_env_file in the model: keys of KEYS and one
\* other key, with values that are empty, plain, or hold "=", "#", a blank
\* or a form feed inside.
ConfigKeys == {"LCD_PRESET", "LCD_CS", "BTN_A", "LCD_COLOR"}

ConfigValues == {"", "1", "a=b", "#x", "a b", "a\fb"}

Mappings == UNION {[S -> ConfigValues] : S \in SUBSET ConfigKeys}

InitConfig ==
  /\ c_pc = "unborn"
  /\ c_values = NoEnviron
  /\ c_lines = <<>>
  /\ c_loaded = NoEnviron

\* config-lcd.py is run with some values to save (main, lines 181-193).
ConfigStart ==
  /\ c_pc = "unborn"
  /\ c_values' \in Mappings
  /\ c_pc' = "start"
  /\ UNCHANGED <<c_lines, c_loaded, lcd_env>>
  /\ UNCHANGED besidesConfig

\* config-lcd.py lines 121-129: write_env_file(ENV_FILE, values).
WriteEnvFile ==
  /\ c_pc = "start"
  /\ lcd_env' = [state |-> "ok", text |-> EnvFileText(c_values)]
  /\ c_pc' = "written"
  /\ UNCHANGED <<c_values, c_lines, c_loaded>>
  /\ UNCHANGED besidesConfig

\* config-lcd.py lines 107-109: load_existing_env_file without a file.
LoadExistingMissing ==
  /\ c_pc = "start"
  /\ lcd_env.state = "missing"
  /\ c_loaded' = NoEnviron
  /\ c_pc' = "loaded"
  /\ UNCHANGED <<c_values, c_lines, lcd_env>>
  /\ UNCHANGED besidesConfig

\* config-lcd.py lines 107-110: load_existing_env_file reads the file.
LoadExistingRead ==
  /\ c_pc = "written"
  /\ c_loaded' = NoEnviron
  /\ c_lines' = splitlines(read_text(lcd_env.text))
  /\ c_pc' = "loading"
  /\ UNCHANGED <<c_values, lcd_env>>
  /\ UNCHANGED besidesConfig

\* config-lcd.py lines 110-117: one line of the file.
LoadExistingStep ==
  /\ c_pc = "loading"
  /\ c_lines # <<>>
  /\ c_loaded' = LoadExistingLine(c_loaded, Head(c_lines))
  /\ c_lines' = Tail(c_lines)
  /\ UNCHANGED <<c_pc, c_values, lcd_env>>
  /\ UNCHANGED besidesConfig

\* config-lcd.py line 118: return values.
LoadExistingReturns ==
  /\ c_pc = "loading"
  /\ c_lines = <<>>
  /\ c_pc' = "loaded"
  /\ UNCHANGED <<c_values, c_lines, c_loaded, lcd_env>>
  /\ UNCHANGED besidesConfig

NextConfig ==
  \/ ConfigStart
  \/ WriteEnvFile
  \/ LoadExistingMissing
  \/ LoadExistingRead
  \/ LoadExistingStep
  \/ LoadExistingReturns

-----------------------------------------------------------------------------
(* lcd-input.py: the buttons and the joystick are registered for edge       *)
(* events, or polled when the registration fails.  A dict is a sequence of  *)
(* <<key, value>> pairs in insertion order.  The model starts from          *)
(* os.environ as it is after _load_env_file; the debounce time only delays  *)
(* the callback and is left out.                                            *)

\* lcd-input.py lines 54-63.
DEFAULT_PINS ==
  << <<"BTN_UP", "6">>, <<"BTN_DOWN", "19">>, <<"BTN_LEFT", "5">>, <<"BTN_RIGHT", "26">>,
     <<"BTN_CENTER", "13">>, <<"BTN_A", "21">>, <<"BTN_B", "20">>, <<"BTN_ACTIVE_LOW", "1">> >>

\* The names of the buttons: the keys of DEFAULT_PINS but BTN_ACTIVE_LOW.
ButtonNames == {DEFAULT_PINS[i][1] : i \in 1..Len(DEFAULT_PINS)} \ {"BTN_ACTIVE_LOW"}

\* Bound of the model: the environments the script is started in.  Four of
\* the seven buttons are always disabled; BTN_UP and BTN_CENTER are left at
\* their defaults, disabled, wired to one pin, or not a number, and BTN_A is
\* disabled or on its default pin.
InputBase ==
  [k \in {"BTN_DOWN", "BTN_LEFT", "BTN_RIGHT", "BTN_A", "BTN_B"} |-> "-1"]

InputCandidates ==
  {<<"BTN_UP", "-1">>, <<"BTN_CENTER", "-1">>, <<"BTN_CENTER", " 6">>,
   <<"BTN_CENTER", "x">>, <<"BTN_A", "21">>, <<"BTN_ACTIVE_LOW", "0">>}

InputEnvirons ==
  {[k \in {p[1] : p \in S} |-> (CHOOSE p \in S : p[1] = k)[2]] @@ InputBase :
     S \in {T \in SUBSET InputCandidates : \A p, q \in T : p[1] = q[1] => p = q}}

\* Every pin ever configured: what C16 must tell apart from NotDisabled.
NeverDisabled(item) == TRUE

\* lcd-input.py line 70: a pin below 0 disables its button.
NotDisabled(item) == item[2] >= 0

\* lcd-input.py line 66: the pins by name, from the environment or the
\* defaults.
ReadPins(env) ==
  LET names == SelectSeq(DEFAULT_PINS, LAMBDA item : item[1] # "BTN_ACTIVE_LOW")
  IN [i \in 1..Len(names) |-> <<names[i][1], int(getenv(env, names[i][1], names[i][2]))>>]

\* lcd-input.py lines 89-91.
is_pressed(level, active_low) == IF active_low THEN level = LOW ELSE level = HIGH

\* Bound of the model: the event lines printed for one button.
MaxEvents == 3

\* An event line printed whatever the state seen last: what C24 must tell
\* apart from Changed.
ChangedOrNot(prev, state) == TRUE

\* lcd-input.py lines 115-116 and 151: a state is reported when it differs
\* from the one in last_state.
Changed(prev, state) == prev # state

\* lcd-input.py lines 119 and 154: the word of an event line.
EventLine(state) == IF state THEN "pressed" ELSE "released"

\* The names in a dict, and the pins in a list of (name, pin) pairs.
Names(items) == {items[i][1] : i \in 1..Len(items)}

PinsOf(items) == {items[i][2] : i \in 1..Len(items)}

InitInput ==
  /\ i_pc = "unborn"
  /\ i_environ = NoEnviron
  /\ PINS = <<>>
  /\ ACTIVE_LOW = TRUE
  /\ last_state = NoEnviron
  /\ EVENT_PINS = <<>>
  /\ POLLED = <<>>
  /\ i_next = 1
  /\ reported = {}
  /\ events = NoEnviron

\* The script is started.
InputStart ==
  /\ i_pc = "unborn"
  /\ i_environ' \in InputEnvirons
  /\ i_pc' = "import"
  /\ UNCHANGED <<PINS, ACTIVE_LOW, last_state, EVENT_PINS, POLLED, i_next, reported, events>>
  /\ UNCHANGED besidesInput

\* lcd-input.py lines 44-49: without RPi.GPIO the script exits with status 1.
InputNoGPIO ==
  /\ i_pc = "import"
  /\ i_pc' = "exit_1"
  /\ UNCHANGED <<i_environ, PINS, ACTIVE_LOW, last_state, EVENT_PINS, POLLED, i_next, reported, events>>
  /\ UNCHANGED besidesInput

\* lcd-input.py lines 66-70: the pins are read and the disabled ones dropped.
InputReadPins ==
  /\ i_pc = "import"
  /\ \A k \in ButtonNames : IsInt(getenv(i_environ, k, "0"))
  /\ PINS' = SelectSeq(ReadPins(i_environ), NotDisabled)
  /\ ACTIVE_LOW' = (getenv(i_environ, "BTN_ACTIVE_LOW", "1") \in {"1", "true", "True", "yes", "on"})
  /\ i_pc' = "setup"
  /\ UNCHANGED <<i_environ, last_state, EVENT_PINS, POLLED, i_next, reported, events>>
  /\ UNCHANGED besidesInput

\* lcd-input.py line 66: int() raises for a pin that is not a number.
InputReadPinsFails ==
  /\ i_pc = "import"
  /\ \E k \in ButtonNames : ~IsInt(getenv(i_environ, k, "0"))
  /\ i_pc' = "crashed"
  /\ UNCHANGED <<i_environ, PINS, ACTIVE_LOW, last_state, EVENT_PINS, POLLED, i_next, reported, events>>
  /\ UNCHANGED besidesInput

\* lcd-input.py lines 81-103: every pin is set up as an input, its state is
\* read into last_state, and the buttons held at startup are reported.
InputSetup ==
  /\ i_pc = "setup"
  /\ \E vals \in [1..Len(PINS) -> Levels] :
       /\ last_state' = [k \in Names(PINS) |->
                           is_pressed(vals[CHOOSE i \in 1..Len(PINS) : PINS[i][1] = k], ACTIVE_LOW)]
       /\ reported' = {k \in Names(PINS) : last_state'[k]}
       /\ events' = [k \in Names(PINS) |->
                       IF last_state'[k] THEN <<"pressed (startup)">> ELSE <<>>]
  /\ i_next' = 1
  /\ i_pc' = "register"
  /\ UNCHANGED <<i_environ, PINS, ACTIVE_LOW, EVENT_PINS, POLLED>>
  /\ UNCHANGED besidesInput

\* lcd-input.py lines 81-85: GPIO.setup raises outside any try block.
InputSetupFails ==
  /\ i_pc = "setup"
  /\ PINS # <<>>
  /\ i_pc' = "crashed"
  /\ UNCHANGED <<i_environ, PINS, ACTIVE_LOW, last_state, EVENT_PINS, POLLED, i_next, reported, events>>
  /\ UNCHANGED besidesInput

\* lcd-input.py lines 124-131: one turn of the registration loop.
\* add_event_detect raises when the pin already has edge detection, and may
\* raise for any other pin; the button is then polled.
InputRegister ==
  /\ i_pc = "register"
  /\ i_next <= Len(PINS)
  /\ \/ /\ PINS[i_next][2] \notin PinsOf(EVENT_PINS)
        /\ EVENT_PINS' = Append(EVENT_PINS, PINS[i_next])
        /\ UNCHANGED POLLED
     \/ /\ POLLED' = Append(POLLED, PINS[i_next])
        /\ UNCHANGED EVENT_PINS
  /\ i_next' = i_next + 1
  /\ UNCHANGED <<i_pc, i_environ, PINS, ACTIVE_LOW, last_state, reported, events>>
  /\ UNCHANGED besidesInput

\* lcd-input.py lines 133-142: the loop is over; the two sets are printed.
InputRegistered ==
  /\ i_pc = "register"
  /\ i_next > Len(PINS)
  /\ i_pc' = "listening"
  /\ UNCHANGED <<i_environ, PINS, ACTIVE_LOW, last_state, EVENT_PINS, POLLED, i_next, reported, events>>
  /\ UNCHANGED besidesInput

\* lcd-input.py lines 110-121: the callback of an event-driven button runs
\* on an edge of its pin and reports a changed state.
InputEdge ==
  /\ i_pc \in {"register", "listening"}
  /\ \E i \in 1..Len(EVENT_PINS), level \in Levels :
       LET name == EVENT_PINS[i][1]
           state == is_pressed(level, ACTIVE_LOW)
       IN /\ Changed(last_state[name], state)
          /\ Len(events[name]) < MaxEvents
          /\ last_state' = [last_state EXCEPT ![name] = state]
          /\ reported' = reported \cup {name}
          /\ events' = [events EXCEPT ![name] = Append(@, EventLine(state))]
  /\ UNCHANGED <<i_pc, i_environ, PINS, ACTIVE_LOW, EVENT_PINS, POLLED, i_next>>
  /\ UNCHANGED besidesInput

\* lcd-input.py lines 147-155: one pass over the polled buttons.
InputPoll ==
  /\ i_pc = "listening"
  /\ POLLED # <<>>
  /\ \E vals \in [1..Len(POLLED) -> Levels] :
       LET state == [k \in Names(POLLED) |->
                       is_pressed(vals[CHOOSE i \in 1..Len(POLLED) : POLLED[i][1] = k], ACTIVE_LOW)]
           changed == {k \in Names(POLLED) : Changed(last_state[k], state[k])}
       IN /\ changed # {}
          /\ \A k \in changed : Len(events[k]) < MaxEvents
          /\ last_state' = [k \in DOMAIN last_state |->
                              IF k \in changed THEN state[k] ELSE last_state[k]]
          /\ reported' = reported \cup changed
          /\ events' = [k \in DOMAIN events |->
                          IF k \in changed THEN Append(events[k], EventLine(state[k]))
                          ELSE events[k]]
  /\ UNCHANGED <<i_pc, i_environ, PINS, ACTIVE_LOW, EVENT_PINS, POLLED, i_next>>
  /\ UNCHANGED besidesInput

\* lcd-input.py lines 157-161: Ctrl+C ends the loop; GPIO.cleanup().
InputInterrupt ==
  /\ i_pc = "listening"
  /\ i_pc' = "exited"
  /\ UNCHANGED <<i_environ, PINS, ACTIVE_LOW, last_state, EVENT_PINS, POLLED, i_next, reported, events>>
  /\ UNCHANGED besidesInput

NextInput ==
  \/ InputStart
  \/ InputNoGPIO
  \/ InputReadPins
  \/ InputReadPinsFails
  \/ InputSetup
  \/ InputSetupFails
  \/ InputRegister
  \/ InputRegistered
  \/ InputEdge
  \/ InputPoll
  \/ InputInterrupt

-----------------------------------------------------------------------------
(* lcd-ping.py: a border frame, then LCD_CYCLES rounds of solid colours.    *)
(* A frame is named by what it shows.  How the LCD_* pin settings are read  *)
(* is modelled with the other scripts above; here the script starts with    *)
(* the display object constructed.                                          *)

\* lcd-ping.py lines 153-159.
colors == <<"black", "white", "red", "green", "blue">>

\* Bound of the model: the values LCD_CYCLES is set to, when it is set.
CycleSettings == {"-1", "0", "1", "3"}

PingEnvirons == {NoEnviron} \cup {[k \in {"LCD_CYCLES"} |-> v] : v \in CycleSettings}

\* A loop that runs one round more: what C18 must tell apart from range.
range_inclusive(n) == 0..n

\* lcd-ping.py line 165: range(CYCLES).
range(n) == 0..(n - 1)

InitPing ==
  /\ p_pc = "unborn"
  /\ p_environ = NoEnviron
  /\ CYCLES = 0
  /\ p_n = 0
  /\ p_idx = 0
  /\ p_shown = <<>>
  /\ p_backlight = "unknown"
  /\ p_border_failed = FALSE
  /\ p_cycle_failed = FALSE

\* lcd-ping.py line 64: CYCLES is read; lines 112-121: the display is made.
PingStart ==
  /\ p_pc = "unborn"
  /\ p_environ' \in PingEnvirons
  /\ CYCLES' = int(getenv(p_environ', "LCD_CYCLES", "2"))
  /\ p_pc' = "begin"
  /\ UNCHANGED <<p_n, p_idx, p_shown, p_backlight, p_border_failed, p_cycle_failed>>
  /\ UNCHANGED besidesPing

\* lcd-ping.py lines 124-125: disp.begin().
PingBegin ==
  /\ p_pc = "begin"
  /\ p_pc' = "backlight"
  /\ UNCHANGED <<p_environ, CYCLES, p_n, p_idx, p_shown, p_backlight, p_border_failed,
                 p_cycle_failed>>
  /\ UNCHANGED besidesPing

\* lcd-ping.py lines 126-128: disp.begin() raises: sys.exit(2).
PingBeginFails ==
  /\ p_pc = "begin"
  /\ p_pc' = "exit_2"
  /\ UNCHANGED <<p_environ, CYCLES, p_n, p_idx, p_shown, p_backlight, p_border_failed,
                 p_cycle_failed>>
  /\ UNCHANGED besidesPing

\* lcd-ping.py lines 131-140: the backlight is requested on; a driver
\* without set_backlight, or one that raises, leaves it as it is.
PingBacklight ==
  /\ p_pc = "backlight"
  /\ p_backlight' \in {"on", p_backlight}
  /\ p_pc' = "border"
  /\ UNCHANGED <<p_environ, CYCLES, p_n, p_idx, p_shown, p_border_failed, p_cycle_failed>>
  /\ UNCHANGED besidesPing

\* lcd-ping.py lines 145-150: the border frame is drawn.
PingBorder ==
  /\ p_pc = "border"
  /\ p_shown' = Append(p_shown, "border")
  /\ p_n' = 0
  /\ p_idx' = 0
  /\ p_pc' = "cycle"
  /\ UNCHANGED <<p_environ, CYCLES, p_backlight, p_border_failed, p_cycle_failed>>
  /\ UNCHANGED besidesPing

\* lcd-ping.py lines 151-152: the border frame raises; except Exception: pass.
PingBorderFails ==
  /\ p_pc = "border"
  /\ p_border_failed' = TRUE
  /\ p_n' = 0
  /\ p_idx' = 0
  /\ p_pc' = "cycle"
  /\ UNCHANGED <<p_environ, CYCLES, p_shown, p_backlight, p_cycle_failed>>
  /\ UNCHANGED besidesPing

\* lcd-ping.py lines 165-169 and 173: one frame of one round is drawn.
PingFrame ==
  /\ p_pc = "cycle"
  /\ p_n \in range(CYCLES)
  /\ p_shown' = Append(p_shown, colors[p_idx + 1])
  /\ IF p_idx + 1 < Len(colors)
       THEN p_idx' = p_idx + 1 /\ p_n' = p_n
       ELSE p_idx' = 0 /\ p_n' = p_n + 1
  /\ UNCHANGED <<p_pc, p_environ, CYCLES, p_backlight, p_border_failed, p_cycle_failed>>
  /\ UNCHANGED besidesPing

\* lcd-ping.py lines 170-172: a frame of a round raises: sys.exit(3).
PingFrameFails ==
  /\ p_pc = "cycle"
  /\ p_n \in range(CYCLES)
  /\ p_cycle_failed' = TRUE
  /\ p_pc' = "exit_3"
  /\ UNCHANGED <<p_environ, CYCLES, p_n, p_idx, p_shown, p_backlight, p_border_failed>>
  /\ UNCHANGED besidesPing

\* lcd-ping.py line 175: the rounds are over; the script ends.
PingDone ==
  /\ p_pc = "cycle"
  /\ p_n \notin range(CYCLES)
  /\ p_pc' = "done"
  /\ UNCHANGED <<p_environ, CYCLES, p_n, p_idx, p_shown, p_backlight, p_border_failed,
                 p_cycle_failed>>
  /\ UNCHANGED besidesPing

NextPing ==
  \/ PingStart
  \/ PingBegin
  \/ PingBeginFails
  \/ PingBacklight
  \/ PingBorder
  \/ PingBorderFails
  \/ PingFrame
  \/ PingFrameFails
  \/ PingDone

-----------------------------------------------------------------------------
(* config-lcd.py --install-global: the export block in ~/.profile.          *)

\* s.find(sub) + 1: where sub first starts in s, 0 when it does not occur.
str_find(s, sub) ==
  LET starts == {i \in 1..(Len(s) - Len(sub) + 1) : SubSeq(s, i, i + Len(sub) - 1) = sub}
  IN IF starts = {} THEN 0 ELSE CHOOSE i \in starts : \A j \in starts : i <= j

\* sub in s
str_in(sub, s) == str_find(s, sub) > 0

\* s.split(sep)[0]: s up to the first sep, all of s without one.
split_first(s, sep) ==
  IF str_in(sep, s) THEN SubSeq(s, 1, str_find(s, sep) - 1) ELSE s

\* s.split(sep, 1)[1], for an s that contains sep: s after the first sep.
split_rest(s, sep) == SubSeq(s, str_find(s, sep) + Len(sep), Len(s))

\* config-lcd.py lines 133-134.
block_begin == "# >>> lcd.env (config-lcd.py) >>>"

block_end == "# <<< lcd.env (config-lcd.py) <<<"

\* config-lcd.py lines 135-140: the block of export lines, in KEYS order.
ExportBlock(values) ==
  LET ks == KeysIn(values)
  IN join("\n", <<block_begin>>
                  \o [i \in 1..Len(ks) |-> "export " \o ks[i] \o "=\"" \o values[ks[i]] \o "\""]
                  \o <<block_end>>) \o "\n"

\* config-lcd.py lines 147-150: the text without its previous block.
WithoutPreviousBlock(txt) ==
  IF str_in(block_begin, txt) /\ str_in(block_end, txt)
    THEN split_first(txt, block_begin) \o split_rest(txt, block_end)
    ELSE txt

\* Bounds of the model: the runs of the script, the values installed, and
\* the profiles found: none, one without a block, one with the block of an
\* earlier run at its end or in its middle, and two that were edited by hand
\* and hold a marker line without its partner.
MaxInstalls == 3

InstallValues ==
  {[k \in {"LCD_CS"} |-> "1"],
   [k \in {"LCD_CS", "LCD_PRESET"} |-> IF k = "LCD_CS" THEN "0" ELSE "waveshare"],
   [k \in {"LCD_CS", "LCD_COLOR"} |-> "1"]}

EarlierBlock == ExportBlock([k \in {"LCD_DC"} |-> "25"])

Profiles ==
  {NoFile} \cup
  {[state |-> "ok", text |-> t] :
     t \in {"", "a\n", "a\n\n" \o EarlierBlock, "a\n" \o EarlierBlock \o "b\n",
            block_begin \o "\nb\n", "a\n" \o block_end \o "\nb\n"}}

InitInstall ==
  /\ g_pc = "unborn"
  /\ g_values = NoEnviron
  /\ profile = NoFile
  /\ g_block = ""
  /\ g_txt = ""
  /\ g_runs = 0
  /\ g_first = ""
  /\ g_profile = NoFile

\* config-lcd.py lines 172-179: main() calls install_global_exports(vals).
InstallStart ==
  /\ g_pc = "unborn"
  /\ g_values' \in InstallValues
  /\ profile' \in Profiles
  /\ g_profile' = profile'
  /\ g_pc' = "build"
  /\ UNCHANGED <<g_block, g_txt, g_runs, g_first>>
  /\ UNCHANGED besidesInstall

\* config-lcd.py lines 133-140: the block is put together.
InstallBuild ==
  /\ g_pc = "build"
  /\ g_block' = ExportBlock(g_values)
  /\ g_pc' = "read"
  /\ UNCHANGED <<g_values, profile, g_txt, g_runs, g_first, g_profile>>
  /\ UNCHANGED besidesInstall

\* config-lcd.py lines 143-146: the profile is read, '' when there is none.
InstallRead ==
  /\ g_pc = "read"
  /\ g_txt' = IF profile.state = "ok" THEN read_text(profile.text) ELSE ""
  /\ g_pc' = "remove"
  /\ UNCHANGED <<g_values, profile, g_block, g_runs, g_first, g_profile>>
  /\ UNCHANGED besidesInstall

\* config-lcd.py lines 147-150: the previous block is cut out.
InstallRemove ==
  /\ g_pc = "remove"
  /\ g_txt' = WithoutPreviousBlock(g_txt)
  /\ g_pc' = "write"
  /\ UNCHANGED <<g_values, profile, g_block, g_runs, g_first, g_profile>>
  /\ UNCHANGED besidesInstall

\* config-lcd.py lines 151-152: the block is appended and the profile written.
InstallWrite ==
  /\ g_pc = "write"
  /\ profile' = [state |-> "ok", text |-> str_rstrip(g_txt) \o "\n\n" \o g_block]
  /\ g_first' = IF g_runs = 0 THEN profile'.text ELSE g_first
  /\ g_runs' = g_runs + 1
  /\ g_pc' = "done"
  /\ UNCHANGED <<g_values, g_block, g_txt, g_profile>>
  /\ UNCHANGED besidesInstall

\* The script is run once more with the same values.
InstallAgain ==
  /\ g_pc = "done"
  /\ g_runs < MaxInstalls
  /\ g_pc' = "build"
  /\ UNCHANGED <<g_values, profile, g_block, g_txt, g_runs, g_first, g_profile>>
  /\ UNCHANGED besidesInstall

NextInstall ==
  \/ InstallStart
  \/ InstallBuild
  \/ InstallRead
  \/ InstallRemove
  \/ InstallWrite
  \/ InstallAgain

-----------------------------------------------------------------------------
(* lcd_util.py: VendorLCD, the wrapper around the vendor driver.            *)

\* A Python float: a number or nan. Every comparison with nan is False.
float(n) == [nan |-> FALSE, v |-> n]

nan == [nan |-> TRUE, v |-> 0]

lt(a, b) == ~a.nan /\ ~b.nan /\ a.v < b.v

gt(a, b) == lt(b, a)

\* A call of the vendor driver as the driver sees it: the function, its
\* arguments, and whether it returned.
VendorCall(fn, args, returned) == [fn |-> fn, args |-> args, returned |-> returned]

\* What the driver and the import of PIL do during one method call: TRUE
\* where the call returns, FALSE where it raises.
Outcomes == [{"LCD_Init", "LCD_Clear", "LCD_ShowImage", "bl_DutyCycle", "PIL"} -> BOOLEAN]

\* The object after a method, and whether the method raised.
Returns(self) == [self |-> self, raised |-> FALSE]

Raises(self) == [self |-> self, raised |-> TRUE]

\* One call of the vendor driver: it is logged, and raises or returns.
Vendor(self, fn, args, ok) ==
  LET called == [self EXCEPT !.calls = Append(@, VendorCall(fn, args, ok[fn]))]
  IN IF ok[fn] THEN Returns(called) ELSE Raises(called)

\* lcd_util.py lines 53-58; scan is the scan direction chosen.
begin(self, scan, ok) ==
  IF self.inited THEN Returns(self)
  ELSE LET r == Vendor(self, "LCD_Init", <<scan>>, ok)
       IN IF r.raised THEN r ELSE Returns([r.self EXCEPT !.inited = TRUE])

\* self._mod.SCAN_DIR_DFT, and a scan direction a caller passes.
SCAN_DIR_DFT == "SCAN_DIR_DFT"

ScanDirs == {SCAN_DIR_DFT, "other"}

\* lcd_util.py lines 64-75; rgb is "black" for (0, 0, 0), and the image made
\* of another colour is called by the colour.
clear(self, rgb, ok) ==
  IF ~ok["PIL"] THEN Raises(self)
  ELSE LET b == IF ~self.inited THEN begin(self, SCAN_DIR_DFT, ok) ELSE Returns(self)
       IN IF b.raised THEN b
          ELSE IF rgb = "black" THEN Vendor(b.self, "LCD_Clear", <<>>, ok)
          ELSE Vendor(b.self, "LCD_ShowImage", <<rgb, 0, 0>>, ok)

\* lcd_util.py lines 77-80.
show(self, image, ok) ==
  LET b == IF ~self.inited THEN begin(self, SCAN_DIR_DFT, ok) ELSE Returns(self)
  IN IF b.raised THEN b ELSE Vendor(b.self, "LCD_ShowImage", <<image, 0, 0>>, ok)

\* lcd_util.py lines 85-88: the percentage as it is passed on.
clamp(percent) ==
  LET p == IF lt(percent, float(0)) THEN float(0) ELSE percent
  IN IF gt(p, float(100)) THEN float(100) ELSE p

\* lcd_util.py lines 82-96; an error of bl_DutyCycle is swallowed.
set_backlight_percent(self, percent, ok) ==
  LET b == IF ~self.inited THEN begin(self, SCAN_DIR_DFT, ok) ELSE Returns(self)
  IN IF b.raised THEN b
     ELSE Returns(Vendor(b.self, "bl_DutyCycle", <<clamp(percent)>>, ok).self)

\* lcd_util.py lines 98-107: both halves swallow their errors.
off(self, ok) ==
  Returns(set_backlight_percent(clear(self, "black", ok).self, float(0), ok).self)

\* Bounds of the model: the method calls on one object, and the percentages
\* passed to set_backlight_percent.
MaxCalls == 3

Percents == {float(n) : n \in {-1, 0, 50, 100, 101}} \cup {nan}

InitVendor ==
  /\ v_pc = "unborn"
  /\ lcd = [inited |-> FALSE, calls |-> <<>>]
  /\ v_raised = FALSE
  /\ v_n = 0

\* After one method call with result r.
Called(r) ==
  /\ lcd' = r.self
  /\ v_raised' = r.raised
  /\ v_n' = v_n + 1
  /\ UNCHANGED v_pc
  /\ UNCHANGED besidesVendor

\* lcd_util.py lines 44-51: VendorLCD().
LcdConstruct ==
  /\ v_pc = "unborn"
  /\ v_pc' = "made"
  /\ UNCHANGED <<lcd, v_raised, v_n>>
  /\ UNCHANGED besidesVendor

\* lcd_util.py lines 45-46: there is no vendor directory.
LcdNoVendor ==
  /\ v_pc = "unborn"
  /\ v_pc' = "failed"
  /\ v_raised' = TRUE
  /\ UNCHANGED <<lcd, v_n>>
  /\ UNCHANGED besidesVendor

LcdBegin ==
  /\ v_pc = "made" /\ v_n < MaxCalls
  /\ \E ok \in Outcomes, scan \in ScanDirs : Called(begin(lcd, scan, ok))

LcdClear ==
  /\ v_pc = "made" /\ v_n < MaxCalls
  /\ \E ok \in Outcomes, rgb \in {"black", "white"} : Called(clear(lcd, rgb, ok))

LcdShow ==
  /\ v_pc = "made" /\ v_n < MaxCalls
  /\ \E ok \in Outcomes : Called(show(lcd, "image", ok))

LcdSetBacklightPercent ==
  /\ v_pc = "made" /\ v_n < MaxCalls
  /\ \E ok \in Outcomes, percent \in Percents : Called(set_backlight_percent(lcd, percent, ok))

LcdOff ==
  /\ v_pc = "made" /\ v_n < MaxCalls
  /\ \E ok \in Outcomes : Called(off(lcd, ok))

NextVendor ==
  \/ LcdConstruct
  \/ LcdNoVendor
  \/ LcdBegin
  \/ LcdClear
  \/ LcdShow
  \/ LcdSetBacklightPercent
  \/ LcdOff

-----------------------------------------------------------------------------
(* The specifications.                                                     *)

Init ==
  /\ InitFont /\ InitClock /\ InitWatcher /\ InitHello /\ InitHistory /\ InitServer
  /\ InitEnv /\ InitConfig /\ InitInput /\ InitPing /\ InitInstall /\ InitVendor

\* The requests of the sequential specification: any text in the JSON body
\* alone, and every combination of a missing, an empty and a one-letter JSON
\* text, form field and query parameter.
FewTexts == {NoneText, Empty, TextA}

Requests ==
  {<<json, NoneText, NoneText>> : json \in InputTexts} \cup (FewTexts \X FewTexts \X FewTexts)

\* The environments the server is started in: BTN_RESTORE_PREV on or off,
\* and BTN_MAX below BTN_MIN or MaxSpan above it.
Spans == {0 - 1, MaxSpan}

\* flask_server.py, one request at a time, with every input text.
NextPost ==
  \/ ServerStart(TRUE, MaxSpan)
  \/ \E r \in Requests : PostReceive(1, r[1], r[2], r[3])
  \/ PostAcquire(1)
  \/ PostAssign(1)
  \/ PostDrawBegin(1)
  \/ PostDrawEnd(1)
  \/ \E e \in DrawErrors : PostDrawFails(1, e)
  \/ PostRelease(1)
  \/ PostExcept(1)
  \/ GetReceive(1)
  \/ GetAcquire(1)
  \/ GetRead(1)
  \/ Respond(1)

SpecPost == Init /\ [][NextPost]_vars

\* The requests of the concurrent specification.
FewRequests ==
  {<<TextA, NoneText, NoneText>>, <<NoneText, TextB, NoneText>>,
   <<NoneText, NoneText, NoneText>>}

\* flask_server.py: the request-handler threads and the button thread.
NextServer ==
  \/ \E restore \in BOOLEAN, span \in Spans : ServerStart(restore, span)
  \/ \E t \in Threads, r \in FewRequests : PostReceive(t, r[1], r[2], r[3])
  \/ \E t \in Threads : PostAcquire(t)
  \/ \E t \in Threads : PostAssign(t)
  \/ \E t \in Threads : PostDrawBegin(t)
  \/ \E t \in Threads : PostDrawEnd(t)
  \/ \E t \in Threads, e \in DrawErrors : PostDrawFails(t, e)
  \/ \E t \in Threads : PostRelease(t)
  \/ \E t \in Threads : PostExcept(t)
  \/ \E t \in Threads : GetReceive(t)
  \/ \E t \in Threads : GetAcquire(t)
  \/ \E t \in Threads : GetRead(t)
  \/ \E t \in Threads : Respond(t)
  \/ ButtonPress
  \/ ButtonAcquire
  \/ ButtonReadPrev
  \/ ButtonAmountBegin
  \/ ButtonAmountEnd
  \/ ButtonShow
  \/ ButtonRestoreBegin
  \/ ButtonRestoreEnd
  \/ ButtonBlackBegin
  \/ ButtonBlackEnd
  \/ ButtonRaises

SpecServer == Init /\ [][NextServer]_vars

\* choose_font alone.
SpecFont == Init /\ [][NextFont]_vars

\* choose_font with any measurement of the width.
SpecFontAny == Init /\ [][NextFontAny]_vars

\* The same, with the while loop of choose_font kept running: an iteration
\* that can be taken is taken, and the return after the loop is reached.
SpecFontAnyFair == SpecFontAny /\ WF_vars(Probe) /\ WF_vars(SearchReturn)

\* One of the two debounce loops.
NextDebounce == NextWatcher \/ NextHello

SpecDebounce == Init /\ [][NextDebounce]_vars

\* The configuration code of one of the scripts that read LCD_* settings.
SpecEnv == Init /\ [][NextEnv]_vars

\* config-lcd.py saving values and loading them again.
SpecConfig == Init /\ [][NextConfig]_vars

\* lcd-input.py from its start to Ctrl+C.
SpecInput == Init /\ [][NextInput]_vars

\* lcd-ping.py from its start to its exit.
SpecPing == Init /\ [][NextPing]_vars

\* config-lcd.py --install-global, run up to MaxInstalls times.
SpecInstall == Init /\ [][NextInstall]_vars

\* One VendorLCD and up to MaxCalls calls of its methods.
SpecVendor == Init /\ [][NextVendor]_vars

-----------------------------------------------------------------------------
(* Claims about the debounce loops.                                        *)

\* C1: in both debounce loops a press event is never fired twice without an
\* accepted transition to the inactive level (a release) between the two.
C1_NoDoublePress == press_run <= 1

\* C1 witness: a press was fired, a release was accepted, and a second press
\* has just been fired.
C1_Witness ==
  /\ accepted.kind = "press"
  /\ accepted.nth >= 3
  /\ press_run = 1
  /\ (bw_pc = "callback" \/ h_pc = "bl_on")

\* A callback of ButtonWatcher has just raised an Exception.
CallbackRaisedStep == accepted.outcome = "called" /\ accepted'.outcome = "raised"

\* ButtonWatcher accepts a transition whose callback is given.
AcceptedWithCallback(kind) ==
  /\ script = "button_util"
  /\ accepted'.nth = accepted.nth + 1
  /\ accepted'.kind = kind
  /\ IF kind = "press" THEN on_press ELSE on_release

\* C10: in ButtonWatcher.loop an Exception raised by on_press or on_release
\* is swallowed: the accepted level and the transition time stay updated, the
\* loop goes on to its sleep and keeps running, and every later accepted
\* transition whose callback is given still invokes it.
C10_CallbackErrorSwallowed ==
  [][/\ CallbackRaisedStep =>
          /\ bw_pc' = "sleep"
          /\ _running' = _running
          /\ _last_val' = accepted.level
          /\ _last_change_ms' = accepted.at
     /\ \A kind \in {"press", "release"} :
          AcceptedWithCallback(kind) => bw_pc' = "callback" /\ cb' = kind]_vars

\* C10 witness: after a swallowed Exception a later accepted transition has
\* its callback invoked.
C10_Witness ==
  /\ script = "button_util"
  /\ swallowed >= 1
  /\ bw_pc = "callback"
  /\ accepted.outcome = "called"
  /\ accepted.nth >= 2

-----------------------------------------------------------------------------
(* Claims about the font search.                                           *)

Candidates == MIN_SIZE..height

\* The fit constraint of the claim: the measured width and height, with the
\* fixed margin of 8, both fit the rectangle.
FitConstraint(s) == tw[s] <= width - 8 /\ th[s] <= height - 8

FittingCandidates == {s \in Candidates : FitConstraint(s)}

Searched == cf_pc = "returned" /\ font_path

IsLargestFitting(f) ==
  /\ f.kind = "truetype"
  /\ f.size \in FittingCandidates
  /\ \A s \in FittingCandidates : s <= f.size

\* C2 (as stated): for every width, height and monotonic measurement the
\* search returns the font of the largest candidate size in 6..height whose
\* measured box fits.
C2_AlwaysLargestFitting == Searched => IsLargestFitting(cf_result)

\* C2 (amended): when some candidate size in 6..height fits, the search
\* returns the font of the largest fitting candidate; when none fits (or
\* height < 6) it returns the size-12 font it started with.
C2_LargestFittingOrStart ==
  Searched =>
    IF FittingCandidates # {}
      THEN IsLargestFitting(cf_result)
      ELSE cf_result = truetype(START_SIZE)

\* C2 witness: a search that returned a fitting size other than the smallest
\* and the largest candidate and other than the start size.
C2_Witness ==
  /\ Searched
  /\ cf_result.kind = "truetype"
  /\ cf_result.size \in FittingCandidates
  /\ cf_result.size \notin {MIN_SIZE, height, START_SIZE}
  /\ Len(probed) >= 2

-----------------------------------------------------------------------------
(* Claims about flask_server.py.                                           *)

\* The positions of a POST handler, and those in which it holds state_lock.
PostPositions ==
  {"post_lock", "post_assign", "post_draw", "post_drawing", "post_release",
   "post_except", "responded"}

LockPositions ==
  {"post_assign", "post_draw", "post_drawing", "post_release", "post_except", "get_read"}

\* The text is missing or empty in the JSON body, the form field and the
\* query parameter.
NoTextGiven(given) == \A i \in 1..3 : given[i] \in {NoneText, Empty}

\* C3: POST /display answers 400 for every request whose text is missing or
\* empty in the JSON body, the form field and the query parameter, and such
\* a request changes neither current_text nor the display (it never goes on
\* to take the lock).
C3_EmptyTextRejected ==
  \A t \in Threads :
    (req[t].pc \in PostPositions /\ NoTextGiven(req[t].given)) =>
      (req[t].pc = "responded" /\ req[t].status = 400)

\* The text of the claim: the whitespace-stripped input cut to its first 256
\* characters.
StrippedAndCut(m) == slice(strip(m), 256)

\* C4: for every accepted POST /display the text stored in current_text,
\* rendered and returned as 'displayed' is the whitespace-stripped input cut
\* to its first 256 characters, and current_text never has more than 256
\* characters.
C4_StoredTextStrippedAndCut ==
  /\ len(current_text) <= 256
  /\ \A t \in Threads :
       LET r == req[t]
       IN /\ (r.pc \in PostPositions /\ r.status # 400) =>
               r.message = StrippedAndCut(RequestText(r.given[1], r.given[2], r.given[3]))
          /\ r.pc \in {"post_draw", "post_drawing", "post_release"} =>
               current_text = r.message
          /\ r.pc = "post_release" => display = ShownText(r.message)
          /\ (r.pc = "responded" /\ r.status = 200) => r.body = r.message

\* C4 witness: a POST whose stripped text is longer than 256 characters was
\* answered 200 with a text of exactly 256 characters that ends in a blank,
\* which is also current_text and on the display.
C4_Witness ==
  \E t \in Threads :
    /\ req[t].pc = "responded"
    /\ req[t].status = 200
    /\ len(strip(req[t].given[1])) > 256
    /\ len(req[t].body) = 256
    /\ req[t].body[Len(req[t].body)][1] = WS
    /\ current_text = req[t].body
    /\ display = ShownText(req[t].body)

\* The text on the display; before anything is drawn there is none.
DisplayText == IF display.kind = "text" THEN display.text ELSE Empty

\* C5: with POST and GET requests only (no button press), whenever no request
\* holds the lock the text on the display equals current_text, which is the
\* message of the POST that acquired the lock last.
C5_DisplayShowsCurrentText ==
  (presses = 0 /\ state_lock = Free) =>
    (DisplayText = current_text /\ current_text = last_assigned)

\* C6: every draw to the display is made while holding state_lock, so no two
\* draw calls are in progress at once, across the request-handler threads
\* and the button thread.
C6_DrawsHoldLock ==
  /\ \A t \in drawing : state_lock = t
  /\ Cardinality(drawing) <= 1

\* Thread t answers a GET: it reads current_text in the lock.
GetReads(t) == req[t].pc = "get_read" /\ req'[t].pc = "got"

\* No POST and no button handler is in progress beside thread t.
Quiet(t) ==
  /\ btn.pc = "idle"
  /\ \A u \in Threads : u # t => req[u].pc \in {"idle", "responded", "got"}

\* The text last rendered: what the last successful draw of a message put
\* on the panel (before any, the empty text).
RenderedIs(body) ==
  \/ last_rendered = ShownText(body)
  \/ last_rendered = NothingShown /\ body = Empty

\* C7 (as stated): after any sequence of POST /display requests and button
\* presses (none of them in progress, and no draw having failed), GET
\* /display returns the text that was most recently rendered on the display.
C7_GetReturnsLastRendered ==
  [][\A t \in Threads :
       (GetReads(t) /\ Quiet(t) /\ ~draw_failed) => RenderedIs(req'[t].body)]_vars

\* C7 (amended): GET /display returns current_text as it is when the
\* handler holds the lock: the message of the POST /display that took the
\* lock last (the empty text before any), whatever the button thread or a
\* failed draw left on the display.
C7_GetReturnsLastAssigned ==
  [][\A t \in Threads : GetReads(t) => req'[t].body = last_assigned]_vars

\* C7 witness: a GET has returned a posted text while the message rendered
\* last is the amount of a button press.
C7_Witness ==
  \E t \in Threads :
    /\ req[t].pc = "got"
    /\ req[t].body = TextA
    /\ last_assigned = TextA
    /\ last_rendered.kind = "amount"

\* What a button handler did so far is a start of: the amount drawn, the
\* sleep of BTN_SHOW_MS, then the restore of the text seen at the press (or
\* the black screen); an exception ends it at any point.
HandlerOrder(drew, seen) ==
  /\ Len(drew) <= 3
  /\ \A i \in 1..Len(drew) : drew[i] = Raised => i = Len(drew)
  /\ Len(drew) >= 1 =>
       \/ drew[1] = Raised
       \/ drew[1].kind = "amount" /\ drew[1].amount \in BTN_MIN..BTN_MAX
  /\ Len(drew) >= 2 => drew[2] \in {Slept, Raised}
  /\ Len(drew) >= 3 =>
       \/ drew[3] = Raised
       \/ drew[3] = IF BTN_RESTORE_PREV THEN ShownText(seen) ELSE ShownBlack

\* C8: on a button press the handler first draws a generated value (an
\* integer in BTN_MIN..BTN_MAX with the suffix), keeps it for BTN_SHOW_MS and
\* then, when BTN_RESTORE_PREV is on, redraws the text that was current_text
\* when the press was handled (otherwise draws a black screen and turns the
\* backlight off); current_text is never changed by a press.
C8_PressShowsAmountThenRestores ==
  /\ [](HandlerOrder(btn.drew, btn.seen))
  /\ []((btn.pc = "idle" /\ btn.drew # <<>> /\ btn.drew[Len(btn.drew)] = ShownBlack)
          => srv_backlight = "off")
  /\ [][btn' # btn => current_text' = current_text]_vars

\* C8 witness: a handler has drawn an amount, slept and restored a text
\* that a POST had stored before the press.
C8_Witness ==
  /\ btn.pc = "idle"
  /\ Len(btn.drew) = 3
  /\ btn.drew[1].kind = "amount"
  /\ btn.seen # Empty
  /\ btn.drew[3] = ShownText(btn.seen)

\* C9: any exception raised while POST /display is handled yields a 500
\* response whose 'error' field is the exception message; a request with no
\* text at all yields 400; and neither leaves state_lock held: only a thread
\* inside its with block holds it.
C9_ErrorsAnsweredLockReleased ==
  \A t \in Threads :
    LET r == req[t]
    IN /\ (r.pc = "responded" /\ r.exc # "none") => (r.status = 500 /\ r.error = r.exc)
       /\ (r.pc = "responded" /\ r.status = 500) => r.error \in DrawErrors
       /\ (r.pc = "responded" /\ r.given = <<NoneText, NoneText, NoneText>>) =>
            r.status = 400
       /\ state_lock = t => r.pc \in LockPositions

\* C9 witness: a POST was answered 500 and another handler holds the lock
\* after it.
C9_Witness ==
  \E t, u \in Threads :
    /\ req[t].pc = "responded"
    /\ req[t].status = 500
    /\ req[t].error \in DrawErrors
    /\ state_lock = u
    /\ u # t

-----------------------------------------------------------------------------
(* Further claims about the debounce loops.                                *)

\* ButtonWatcher.loop has just tested a sample (lines 72-93).
WatcherSampled == script = "button_util" /\ bw_pc = "while" /\ bw_pc' \in {"callback", "sleep"}

\* A loop has just accepted a transition.
JustAccepted == accepted'.nth = accepted.nth + 1

\* C11: ButtonWatcher.loop accepts a transition exactly when the sampled
\* level differs from the last accepted level and more than debounce_ms has
\* elapsed since the last accepted transition; on an accepted transition
\* exactly one callback kind applies: on_press when the new level is the
\* active level (LOW when pull_up, HIGH otherwise), on_release otherwise,
\* and it is invoked when it is given.
C11_AcceptedExactlyWhen ==
  [][WatcherSampled =>
       LET differs == _last_val # None /\ val' # _last_val
           elapsed == now' - _last_change_ms > debounce_ms
           press == val' = (IF pull_up THEN 0 ELSE 1)
       IN /\ JustAccepted <=> (differs /\ elapsed)
          /\ JustAccepted =>
               /\ accepted'.kind = (IF press THEN "press" ELSE "release")
               /\ _last_val' = val' /\ _last_change_ms' = now'
               /\ cb' = (IF press THEN (IF on_press THEN "press" ELSE "none")
                                  ELSE (IF on_release THEN "release" ELSE "none"))
          /\ ~JustAccepted => (cb' = "none" /\ _last_change_ms' = _last_change_ms)]_vars

\* C11 witness: with a pull-down button a LOW level was accepted exactly one
\* tick after the debounce time, and on_release is being invoked for it.
C11_Witness ==
  /\ script = "button_util"
  /\ ~pull_up
  /\ bw_pc = "callback"
  /\ cb = "release"
  /\ accepted.level = 0
  /\ debounce_ms >= 1
  /\ accepted.at - accepted.since = debounce_ms + 1

\* C12: in both debounce loops the timestamps of two consecutively accepted
\* transitions differ by strictly more than the debounce threshold
\* (debounce_ms, and 150 ms in hello-on-center.py); in ButtonWatcher the
\* first accepted transition is also more than debounce_ms after setup().
C12_AcceptedFartherApartThanDebounce ==
  [][JustAccepted =>
       LET threshold == IF script = "hello" THEN 150 ELSE debounce_ms
       IN /\ accepted.nth >= 1 => accepted'.at - accepted.at > threshold
          /\ (script = "button_util" /\ accepted.nth = 0) =>
               accepted'.at - _last_change_ms > debounce_ms]_vars

\* C12 witness: hello-on-center.py has accepted a second transition 151 ms
\* after the first.
C12_Witness ==
  /\ script = "hello"
  /\ accepted.nth >= 2
  /\ accepted.at - accepted.since = 151

-----------------------------------------------------------------------------
(* Claims about the LCD_* settings.                                        *)

\* The lines of lcd.env that set a key, in file order.
FileSettings ==
  IF lcd_env.state = "ok"
    THEN SelectSeq(splitlines(read_text(lcd_env.text)), LAMBDA line : ~Skipped(line))
    ELSE <<>>

\* What lcd.env gives: for each key it sets, the value of the first line
\* that sets it.
FileValues ==
  LET fs == FileSettings
      keys == [i \in 1..Len(fs) |-> LineKey(fs[i])]
  IN [k \in {keys[i] : i \in 1..Len(fs)} |->
        LineValue(fs[CHOOSE i \in 1..Len(fs) :
                       keys[i] = k /\ \A j \in 1..(i - 1) : keys[j] # k])]

\* The text a key resolves to: the process environment, else lcd.env, else
\* the default d.
Resolved(file, k, d) ==
  IF k \in DOMAIN environ0 THEN environ0[k]
  ELSE IF k \in DOMAIN file THEN file[k] ELSE d

\* C13: in each script that reads LCD_* settings the value of a key is the
\* process environment value if set, else the lcd.env value, else, when
\* LCD_PRESET in any case is waveshare144, waveshare-1.44 or waveshare and
\* the key is in the preset table, the preset value, else the hardcoded
\* default.
C13_SettingsResolveInOrder ==
  e_pc = "configured" =>
    LET file == FileValues
        preset == lower(Resolved(file, "LCD_PRESET", ""))
    IN /\ config["LCD_PRESET"] = preset
       /\ \A k \in DOMAIN IntDefaults(e_script) :
            config[k] =
              IF k \in DOMAIN environ0 \/ k \in DOMAIN file
                THEN int(Resolved(file, k, ""))
              ELSE IF /\ preset \in {"waveshare144", "waveshare-1.44", "waveshare"}
                      /\ k \in DOMAIN PresetTable(e_script)
                THEN PresetTable(e_script)[k]
                ELSE int(IntDefaults(e_script)[k])
       /\ \A k \in DOMAIN BoolDefaults(e_script) :
            config[k] = (Resolved(file, k, BoolDefaults(e_script)[k]) \in TrueWords)

\* C13 witness: one run in which a setting comes from the process
\* environment although lcd.env sets it too, one from lcd.env, one from the
\* preset named in mixed case, and one from its default.
C13_Witness ==
  /\ e_pc = "configured"
  /\ "LCD_DC" \in DOMAIN environ0 /\ "LCD_DC" \in DOMAIN FileValues /\ config["LCD_DC"] = 7
  /\ config["LCD_ROT"] = 270
  /\ "LCD_PRESET" \in DOMAIN environ0 /\ config["LCD_BL"] = 24
  /\ config["LCD_SPEED"] = 4000000

-----------------------------------------------------------------------------
(* Claims about config-lcd.py.                                             *)

\* A value has no newline and no leading or trailing whitespace.
PlainValue(v) == ~contains(v, "\n") /\ ~contains(v, "\r") /\ str_strip(v) = v

\* A mapping restricted to the supported keys.
RestrictedToKEYS(values) ==
  [k \in {x \in DOMAIN values : \E i \in 1..Len(KEYS) : KEYS[i] = x} |-> values[k]]

\* C14: for any mapping whose values have no newlines and no leading or
\* trailing whitespace, load_existing_env_file applied to the file written
\* by write_env_file returns exactly that mapping restricted to KEYS.
C14_EnvFileRoundTrip ==
  (c_pc = "loaded" /\ lcd_env.state = "ok" /\ \A k \in DOMAIN c_values : PlainValue(c_values[k]))
    => c_loaded = RestrictedToKEYS(c_values)

-----------------------------------------------------------------------------
(* Claims about the screen of hello-on-center.py.                          *)

\* The screen shows black and the backlight is off.
Dark == screen = "black" /\ backlight = "off"

\* C15: in hello-on-center.py, as long as no backlight call has failed, the
\* screen is black and the backlight is off whenever the loop samples the
\* button, and the screen is left black with the backlight off when the
\* script has left through its finally block (Ctrl+C or an error while
\* showing).
C15_DarkWhenSamplingAndAfterExit ==
  (script = "hello" /\ ~bl_failed) =>
    /\ h_pc = "while" => Dark
    /\ h_pc = "exited" => Dark

-----------------------------------------------------------------------------
(* Claims about lcd-input.py.                                              *)

\* The pin a button is configured with: its environment value or default.
ConfiguredPin(name) ==
  int(getenv(i_environ, name,
             DEFAULT_PINS[CHOOSE i \in 1..Len(DEFAULT_PINS) : DEFAULT_PINS[i][1] = name][2]))

\* C16: in lcd-input.py, once the registration loop is over, every button
\* whose pin is >= 0 is in exactly one of the event-driven set and the polled
\* set, and a button whose pin is -1 is in neither and has never produced an
\* event.
C16_EventDrivenOrPolled ==
  i_pc \in {"setup", "register", "listening", "exited"} =>
    \A name \in ButtonNames :
      LET pin == ConfiguredPin(name)
          driven == <<name, pin>> \in {EVENT_PINS[i] : i \in 1..Len(EVENT_PINS)}
          polled == <<name, pin>> \in {POLLED[i] : i \in 1..Len(POLLED)}
      IN /\ (pin >= 0 /\ i_pc \in {"listening", "exited"}) => (driven /\ ~polled) \/ (polled /\ ~driven)
         /\ pin = 0 - 1 =>
              /\ name \notin Names(EVENT_PINS) \cup Names(POLLED)
              /\ name \notin reported

\* C16 witness: the script listens with BTN_UP event-driven and BTN_CENTER,
\* wired to the same pin, polled after its registration failed; both have
\* produced events and BTN_A is disabled.
C16_Witness ==
  /\ i_pc = "listening"
  /\ EVENT_PINS = << <<"BTN_UP", 6>> >>
  /\ POLLED = << <<"BTN_CENTER", 6>> >>
  /\ reported = {"BTN_UP", "BTN_CENTER"}
  /\ ConfiguredPin("BTN_A") = 0 - 1

-----------------------------------------------------------------------------
(* Claims about the button helpers without hardware.                       *)

\* The step leaves the helpers idle: no loop is entered, no pin is sampled
\* and no callback is invoked.
StaysIdle ==
  /\ bw_pc' \in {"setup_false", "returned"}
  /\ UNCHANGED <<val, now, _last_val, _running, invoked, cb>>

\* C17 as stated: when RPi.GPIO is unavailable or setup() has returned False,
\* every step of the helpers leaves them idle: setup() returns False, loop()
\* returns without sampling, watch_button returns without entering the loop,
\* and no callback is invoked.
C17_NoOpWhenSetupFails ==
  [][(script = "button_util" /\ (~GPIO \/ bw_pc = "setup_false")) => StaysIdle]_vars

\* C17, amended: the helpers stay idle when RPi.GPIO is unavailable, and
\* after a setup() that returned False when they are used through
\* watch_button.  (loop() itself tests only whether RPi.GPIO is there: called
\* after a failed setup() it samples the pin.)
C17_NoOpWithoutGPIOOrThroughWatchButton ==
  [][(script = "button_util" /\ (~GPIO \/ (bw_pc = "setup_false" /\ via = "watch_button")))
       => StaysIdle]_vars

\* C17 witness: with RPi.GPIO there, setup() has failed and watch_button has
\* returned without the loop ever running.
C17_Witness ==
  /\ script = "button_util"
  /\ GPIO
  /\ via = "watch_button"
  /\ bw_pc = "returned"
  /\ cleanups = 0
  /\ _last_val = None
  /\ invoked = 0

-----------------------------------------------------------------------------
(* Claims about lcd-ping.py.                                               *)

\* k rounds of the five colours.
RECURSIVE Rounds(_)
Rounds(k) == IF k <= 0 THEN <<>> ELSE colors \o Rounds(k - 1)

\* s is how t begins, and t goes on.
ProperPrefix(s, t) == Len(s) < Len(t) /\ s = SubSeq(t, 1, Len(s))

\* C18 as stated: lcd-ping.py, when no draw fails, has shown the border frame
\* and then LCD_CYCLES times five frames, black, white, red, green, blue in
\* each round, when it ends; a first failing draw, whichever it is, ends the
\* script with status 3 and no frame is drawn after it; a failing begin() ends
\* it with status 2 before any frame.
C18_CyclesThenEnds ==
  [][/\ (p_pc' = "done" /\ ~p_border_failed' /\ ~p_cycle_failed') =>
          /\ Len(p_shown') = 1 + CYCLES' * Len(colors)
          /\ p_shown' = <<"border">> \o Rounds(CYCLES')
     /\ (p_border_failed \/ p_cycle_failed) => (p_pc = "exit_3" /\ p_shown' = p_shown)
     /\ p_pc' = "exit_2" => p_shown' = <<>>]_vars

\* What lcd-ping.py has shown when nothing of the colour cycle failed: the
\* border frame unless its draw raised, then the rounds.
PingFrames ==
  (IF p_border_failed THEN <<>> ELSE <<"border">>) \o Rounds(CYCLES)

\* C18, amended: lcd-ping.py, when no draw of the colour cycle fails, ends
\* having shown the border frame (unless its draw raised, which is ignored)
\* and then LCD_CYCLES rounds of black, white, red, green, blue, no round
\* when LCD_CYCLES is not positive; the first failing draw of the colour cycle
\* ends the script with status 3 among these frames and no frame is drawn
\* after it; a failing begin() ends it with status 2 before any frame.
C18_CyclesThenEndsBorderIgnored ==
  [][/\ (p_pc' = "done" /\ ~p_cycle_failed') => p_shown' = PingFrames'
     /\ p_cycle_failed' => (p_pc' = "exit_3" /\ ProperPrefix(p_shown', PingFrames'))
     /\ p_cycle_failed => p_shown' = p_shown
     /\ p_pc' = "exit_3" => p_cycle_failed'
     /\ p_pc' = "exit_2" => p_shown' = <<>>]_vars

\* C18 witness: LCD_CYCLES is 3 and the script has ended after the border
\* frame and fifteen frames of the colour cycle.
C18_Witness ==
  /\ p_pc = "done"
  /\ CYCLES = 3
  /\ ~p_border_failed
  /\ Len(p_shown) = 16
  /\ p_shown[16] = "blue"

-----------------------------------------------------------------------------
(* Claims about the server's text after a press or a failed request.       *)

\* No request is in progress.
NoRequestInProgress == \A t \in Threads : req[t].pc \in {"idle", "responded"}

\* C19: in flask_server.py with BTN_RESTORE_PREV on, for any interleaving of
\* POST /display requests with a button-press handler (no draw raising),
\* once the handler has finished and no request is in progress the text on
\* the display equals current_text.
C19_RestoreKeepsDisplayCurrent ==
  (/\ srv = "running"
   /\ BTN_RESTORE_PREV
   /\ ~draw_failed
   /\ presses >= 1
   /\ btn.pc = "idle"
   /\ NoRequestInProgress) => DisplayText = current_text

\* C20: when a POST /display has been answered 400 or 500, requests being
\* handled one at a time and no button pressed, current_text is the text of
\* the last POST that was answered 200 (the empty text before any).
C20_FailedPostKeepsCurrentText ==
  \A t \in Threads :
    (req[t].pc = "responded" /\ req[t].status \in {400, 500}) => RenderedIs(current_text)

-----------------------------------------------------------------------------
(* Claims about the end of ButtonWatcher.loop.                             *)

\* The positions inside the while loop of loop().
Polling == {"while", "callback", "sleep"}

\* C21: once ButtonWatcher.loop polls, every way it ends (stop(), Ctrl+C, an
\* error of the pin read) goes through cleanup(), which runs exactly once,
\* and then returns normally to the caller; after stop() no further sample
\* is taken.
C21_LoopEndsThroughCleanupOnce ==
  [][script = "button_util" =>
       /\ (bw_pc \in Polling /\ bw_pc' \notin Polling) => (bw_pc' = "cleanup" /\ cleanups = 0)
       /\ bw_pc = "cleanup" => (bw_pc' = "returned" /\ cleanups' = 1)
       /\ bw_pc = "returned" => cleanups' = cleanups
       /\ (bw_pc \in Polling /\ ~_running) => (~WatcherSampled /\ ~_running')]_vars

\* C21 witness: a callback was invoked, stop() was called, and the loop has
\* returned after one cleanup.
C21_Witness ==
  /\ script = "button_util"
  /\ bw_pc = "returned"
  /\ ~_running
  /\ invoked >= 1
  /\ cleanups = 1

-----------------------------------------------------------------------------
(* Claims about a change seen inside the debounce window.                  *)

\* C22: a level change that ButtonWatcher.loop saw inside the debounce window
\* is not lost: while the samples stay at the new level and inside the
\* window, the accepted level and the time of the last accepted transition
\* stay as they are, and the first such sample taken more than debounce_ms
\* after the last accepted transition is accepted, with its callback if one
\* is given.
C22_ChangeInsideWindowNotLost ==
  [][(WatcherSampled /\ pending = "seen" /\ val' # _last_val) =>
       IF now' - _last_change_ms > debounce_ms
         THEN /\ JustAccepted
              /\ accepted'.level = val' /\ accepted'.at = now'
              /\ _last_val' = val'
              /\ cb' = CallbackFor(val', pull_up, on_press, on_release)
              /\ (cb' # "none") => bw_pc' = "callback"
         ELSE /\ ~JustAccepted
              /\ pending' = "seen"
              /\ UNCHANGED <<_last_val, _last_change_ms>>]_vars

\* C22 witness: a press first seen inside the debounce window was accepted
\* later and on_press is being invoked for it.
C22_Witness ==
  /\ script = "button_util"
  /\ bw_pc = "callback"
  /\ cb = "press"
  /\ pending = "accepted"
  /\ debounce_ms >= 1

-----------------------------------------------------------------------------
(* Claims about what choose_font returns for any measurement.              *)

\* C23 as stated: when no candidate size in 6..height fits (or height < 6),
\* choose_font returns the size-12 font it started with, whether or not that
\* fits; otherwise the returned size is in 6..height and fits.
C23_StartFontOrFittingCandidate ==
  Searched =>
    IF FittingCandidates = {}
      THEN cf_result = truetype(START_SIZE)
      ELSE cf_result.kind = "truetype" /\ cf_result.size \in FittingCandidates

\* C23, amended: choose_font returns the size-12 font it started with when
\* no candidate size in 6..height fits (or height < 6), whether or not that
\* fits; when a candidate fits and the measurement is monotonic, the returned
\* size is in 6..height and fits; for a measurement that is not monotonic it
\* is such a size or, when no probed size fitted, the size-12 start font.
C23_StartFontOrFittingCandidateIfMonotonic ==
  Searched =>
    LET fitting == cf_result.kind = "truetype" /\ cf_result.size \in FittingCandidates
        probedFit == \E i \in 1..Len(probed) : FitConstraint(probed[i])
    IN /\ FittingCandidates = {} => cf_result = truetype(START_SIZE)
       /\ (FittingCandidates # {} /\ Monotonic(tw) /\ Monotonic(th)) => fitting
       /\ probedFit => fitting
       /\ ~probedFit => cf_result = truetype(START_SIZE)

\* C23 witness: with a width that does not grow with the size, a candidate
\* fits, none of the probed sizes did, and the start font was returned.
C23_Witness ==
  /\ Searched
  /\ ~Monotonic(tw)
  /\ FittingCandidates # {}
  /\ Len(probed) >= 2
  /\ cf_result = truetype(START_SIZE)
  /\ START_SIZE \notin FittingCandidates

-----------------------------------------------------------------------------
(* Claims about the event lines of lcd-input.py.                           *)

\* C24: in lcd-input.py the event lines printed for one button alternate
\* strictly between 'pressed' and 'released', whatever edge callbacks and
\* poll samples occur; a button pressed at start-up is reported as pressed
\* once, at the start, and the next line for it is 'released'.
C24_EventsAlternate ==
  \A name \in DOMAIN events :
    LET lines == events[name]
    IN /\ \A i \in 1..Len(lines) :
            /\ lines[i] = "pressed (startup)" => i = 1
            /\ i > 1 => (lines[i] = "released") = (lines[i - 1] # "released")
            /\ lines[i] \in {"pressed (startup)", "pressed", "released"}
       /\ (Len(lines) >= 2 /\ lines[1] = "pressed (startup)") => lines[2] = "released"

\* C24 witness: a polled button held at start-up was reported released and
\* pressed again, and an event-driven one pressed and released.
C24_Witness ==
  /\ i_pc = "listening"
  /\ \E name \in Names(POLLED) : events[name] = <<"pressed (startup)", "released", "pressed">>
  /\ \E name \in Names(EVENT_PINS) : events[name] = <<"pressed", "released">>

-----------------------------------------------------------------------------
(* Claims about install_global_exports.                                    *)

\* The marked blocks of a text: the begin lines followed by an end line.
RECURSIVE MarkedBlocks(_)
MarkedBlocks(s) ==
  IF str_in(block_begin, s) /\ str_in(block_end, split_rest(s, block_begin))
    THEN 1 + MarkedBlocks(split_rest(split_rest(s, block_begin), block_end))
    ELSE 0

\* The lines of a text that are not blank.
NonBlankLines(s) == SelectSeq(splitlines(s), LAMBDA line : str_strip(line) # "")

\* The lines of a text outside its marked blocks, blank lines left out.
RECURSIVE OutsideLines(_)
OutsideLines(s) ==
  IF str_in(block_begin, s) /\ str_in(block_end, split_rest(s, block_begin))
    THEN OutsideLines(split_first(s, block_begin))
           \o OutsideLines(split_rest(split_rest(s, block_begin), block_end))
    ELSE NonBlankLines(s)

\* The text before the last Len(t) characters of s.
BeforeEnd(s, t) == SubSeq(s, 1, Len(s) - Len(t))

\* s.endswith(t)
endswith(s, t) == Len(s) >= Len(t) /\ SubSeq(s, Len(s) - Len(t) + 1, Len(s)) = t

\* C25: install_global_exports is idempotent: for a profile that holds at
\* most one marked block, after any number of runs with the same values the
\* file is what the first run wrote, with exactly one marked block, at its
\* end, and the lines outside the block are those of the profile found, in
\* their order.
C25_InstallIdempotent ==
  (g_pc = "done" /\ MarkedBlocks(g_profile.text) <= 1) =>
    /\ profile.text = g_first
    /\ MarkedBlocks(profile.text) = 1
    /\ endswith(profile.text, ExportBlock(g_values))
    /\ NonBlankLines(BeforeEnd(profile.text, ExportBlock(g_values)))
         = OutsideLines(g_profile.text)

-----------------------------------------------------------------------------
(* Claims about VendorLCD.                                                 *)

\* The positions of the log at which fn was called.
CallsOf(fn) == {i \in 1..Len(lcd.calls) : lcd.calls[i].fn = fn}

InRange(x) == ~x.nan /\ 0 <= x.v /\ x.v <= 100

\* A call of LCD_Init raised.
InitFailed == \E i \in CallsOf("LCD_Init") : ~lcd.calls[i].returned

\* C26: on one VendorLCD whose LCD_Init does not fail, whatever methods are
\* called, LCD_Init is called exactly once and before the first LCD_Clear,
\* LCD_ShowImage or bl_DutyCycle, and bl_DutyCycle is only called with a
\* value in 0..100.
C26_InitOnceAndDutyInRange ==
  (~InitFailed /\ Len(lcd.calls) > 0) =>
    /\ Cardinality(CallsOf("LCD_Init")) = 1
    /\ lcd.calls[1].fn = "LCD_Init"
    /\ \A i \in CallsOf("bl_DutyCycle") : InRange(lcd.calls[i].args[1])

-----------------------------------------------------------------------------
(* Claims about the termination of choose_font.                            *)

\* The sizes left to search.
Interval(l, h) == l..h

\* C27: the binary search of choose_font terminates for every width, height
\* and measurement function, monotonic or not: each iteration probes a size
\* in 6..height that was not probed before and leaves an interval [lo, hi]
\* that is a proper part of the one it found, and a search that was started
\* returns.
C27_SearchShrinksAndTerminates ==
  /\ [][(cf_pc = "search" /\ probed' # probed) =>
          /\ Interval(lo', hi') \subseteq Interval(lo, hi)
          /\ Interval(lo', hi') # Interval(lo, hi)
          /\ probed'[Len(probed')] \in MIN_SIZE..height
          /\ \A i \in 1..Len(probed) : probed[i] # probed'[Len(probed')]]_vars
  /\ (cf_pc = "search") ~> (cf_pc = "returned")

\* C27 witness: a search over widths that do not grow with the size has
\* returned after three or more iterations.
C27_Witness ==
  /\ Searched
  /\ ~Monotonic(tw)
  /\ Len(probed) >= 3

====
